---- MODULE Spec2Model ----
(***************************************************************************)
(* A model of intervals-mcp-server (src/intervals_mcp_server/server.py):   *)
(* the HTTP gateway make_intervals_request, the result normaliser and the  *)
(* tools built on them.  Python values are tagged records, strings are     *)
(* TLA+ strings, and every await of a remote request is a step whose       *)
(* response the environment chooses.                                       *)
(***************************************************************************)
EXTENDS Integers, Sequences, FiniteSets, TLC

VARIABLES
    proc,        \* "loading" | "running" | "failed" | "stopped" | "crashed": the
                 \* import of server.py and the lifespan of the service
    httpx_client, \* server.py:77, the shared HTTP client and how often it was closed
    API_KEY,     \* server.py:99, the default credential ("" when unset)
    ATHLETE_ID,  \* server.py:100, the default athlete id ("" when unset)
    pc,          \* position of the running invocation
    call,        \* the invocation: the tool's name and its arguments
    loc,         \* the invocation's local variables
    sent,        \* the HTTP requests the invocation issued, with their outcome
    ret          \* what the invocation returned (a value, a text or an exception)

vars == <<proc, httpx_client, API_KEY, ATHLETE_ID, pc, call, loc, sent, ret>>

-----------------------------------------------------------------------------
(* Bounds of the model *)

\* longest page (JSON list) the remote API returns
MaxPage == 2
\* largest limit a caller asks get_activities for
MaxLimit == 2
\* longest list of events the remote API returns
MaxEvents == 3

-----------------------------------------------------------------------------
(* Python values *)

PyNone == [t |-> "null"]
PyStr(s) == [t |-> "str", s |-> s]
PyInt(n) == [t |-> "num", n |-> n]
PyBool(b) == [t |-> "bool", b |-> b]
PyList(items) == [t |-> "list", items |-> items]
PyDict(keys, vals) == [t |-> "dict", keys |-> keys, vals |-> vals]

IsNone(v) == v.t = "null"
IsList(v) == v.t = "list"
IsDict(v) == v.t = "dict"

\* bool(v): the truth value Python gives v
Truthy(v) ==
    CASE v.t = "null" -> FALSE
      [] v.t = "str" -> v.s # ""
      [] v.t = "num" -> v.n # 0
      [] v.t = "bool" -> v.b
      [] v.t = "list" -> Len(v.items) > 0
      [] v.t = "dict" -> Len(v.keys) > 0

\* key in d
HasKey(d, k) == \E i \in 1..Len(d.keys) : d.keys[i] = k

\* d.get(k): the value of the key, None when it is absent
DictGet(d, k) ==
    IF HasKey(d, k)
    THEN d.vals[CHOOSE i \in 1..Len(d.keys) : d.keys[i] = k]
    ELSE PyNone

Digits == "0123456789"

RECURSIVE NatToStr(_)
NatToStr(n) ==
    IF n < 10 THEN SubSeq(Digits, n + 1, n + 1)
    ELSE NatToStr(n \div 10) \o SubSeq(Digits, (n % 10) + 1, (n % 10) + 1)

\* str(n) of an int
IntToStr(n) == IF n < 0 THEN "-" \o NatToStr(-n) ELSE NatToStr(n)

\* s[i:i+1] in "0".."9"
IsDigit(c) == \E i \in 1..10 : SubSeq(Digits, i, i) = c

DigitVal(c) == (CHOOSE i \in 1..10 : SubSeq(Digits, i, i) = c) - 1

RECURSIVE StrToNat(_)
StrToNat(s) ==
    IF Len(s) = 0 THEN 0
    ELSE 10 * StrToNat(SubSeq(s, 1, Len(s) - 1)) + DigitVal(SubSeq(s, Len(s), Len(s)))

AllDigits(s) == \A i \in 1..Len(s) : IsDigit(SubSeq(s, i, i))

\* t in s, for strings
Contains(s, t) ==
    \E i \in 1..(Len(s) - Len(t) + 1) : SubSeq(s, i, i + Len(t) - 1) = t

RECURSIVE JoinDumps(_, _)
RECURSIVE Dumps(_)
\* json.dumps(v) with the default separators
Dumps(v) ==
    CASE v.t = "null" -> "null"
      [] v.t = "str" -> "\"" \o v.s \o "\""
      [] v.t = "num" -> IntToStr(v.n)
      [] v.t = "bool" -> IF v.b THEN "true" ELSE "false"
      [] v.t = "list" -> "[" \o JoinDumps(v, 1) \o "]"
      [] v.t = "dict" -> "{" \o JoinDumps(v, 1) \o "}"

JoinDumps(v, i) ==
    LET n == IF v.t = "list" THEN Len(v.items) ELSE Len(v.keys)
        one == IF v.t = "list" THEN Dumps(v.items[i])
               ELSE "\"" \o v.keys[i] \o "\": " \o Dumps(v.vals[i])
    IN  IF i > n THEN ""
        ELSE IF i = n THEN one
        ELSE one \o ", " \o JoinDumps(v, i + 1)

UpperChars == "ABCDEFGHIJKLMNOPQRSTUVWXYZ"
LowerChars == "abcdefghijklmnopqrstuvwxyz"

\* c.lower() of one character
LowerChar(c) ==
    IF \E i \in 1..Len(UpperChars) : SubSeq(UpperChars, i, i) = c
    THEN LET i == CHOOSE i \in 1..Len(UpperChars) : SubSeq(UpperChars, i, i) = c
         IN  SubSeq(LowerChars, i, i)
    ELSE c

RECURSIVE Lower(_)
\* s.lower()
Lower(s) ==
    IF Len(s) = 0 THEN ""
    ELSE LowerChar(SubSeq(s, 1, 1)) \o Lower(SubSeq(s, 2, Len(s)))

\* s.startswith(prefix)
StartsWith(s, prefix) == Len(prefix) <= Len(s) /\ SubSeq(s, 1, Len(prefix)) = prefix

\* two spaces for each level of json.dumps(..., indent=2)
Indent(level) == SubSeq("                ", 1, 2 * level)

RECURSIVE JoinDumpsIndent(_, _, _)
RECURSIVE DumpsIndent(_, _)
\* json.dumps(v, indent=2), for v nested at level
DumpsIndent(v, level) ==
    CASE v.t = "list" /\ Len(v.items) > 0 ->
             "[\n" \o JoinDumpsIndent(v, 1, level + 1) \o "\n" \o Indent(level) \o "]"
      [] v.t = "dict" /\ Len(v.keys) > 0 ->
             "{\n" \o JoinDumpsIndent(v, 1, level + 1) \o "\n" \o Indent(level) \o "}"
      [] OTHER -> Dumps(v)

JoinDumpsIndent(v, i, level) ==
    LET n == IF v.t = "list" THEN Len(v.items) ELSE Len(v.keys)
        one == IF v.t = "list" THEN Indent(level) \o DumpsIndent(v.items[i], level)
               ELSE Indent(level) \o "\"" \o v.keys[i] \o "\": "
                    \o DumpsIndent(v.vals[i], level)
    IN  IF i = n THEN one
        ELSE one \o ",\n" \o JoinDumpsIndent(v, i + 1, level)

-----------------------------------------------------------------------------
(* Configuration and the import of the module (server.py:98-107) *)

INTERVALS_API_BASE_URL == "https://intervals.icu/api/v1"
USER_AGENT == "intervalsicu-mcp-server/1.0"

\* re.fullmatch(r"i?\d+", s)
AthleteIdMatches(s) ==
    LET rest == IF Len(s) > 0 /\ SubSeq(s, 1, 1) = "i" THEN SubSeq(s, 2, Len(s)) ELSE s
    IN  Len(rest) > 0 /\ AllDigits(rest)

-----------------------------------------------------------------------------
(* HTTP gateway (server.py:118-216) *)

\* the members of http.HTTPStatus: HTTPStatus(code) raises ValueError for any other code
HTTPStatusValues ==
    (100..103) \cup (200..208) \cup {226} \cup (300..305) \cup {307, 308}
    \cup (400..418) \cup (421..426) \cup {428, 429, 431, 451}
    \cup (500..508) \cup {510, 511}

\* the error_messages table of _get_error_message
error_messages ==
    [c \in {401, 403, 404, 422, 429, 500, 503} |->
        CASE c = 401 -> "401 Unauthorized: Please check your API key."
          [] c = 403 -> "403 Forbidden: You may not have permission to access this resource."
          [] c = 404 -> "404 Not Found: The requested endpoint or ID doesn't exist."
          [] c = 422 -> "422 Unprocessable Entity: The server couldn't process the request (invalid parameters or unsupported operation)."
          [] c = 429 -> "429 Too Many Requests: Too many requests in a short time period."
          [] c = 500 -> "500 Internal Server Error: The Intervals.icu server encountered an internal error."
          [] c = 503 -> "503 Service Unavailable: The Intervals.icu server might be down or undergoing maintenance."]

\* _get_error_message with the code prepended to the fallback text
_get_error_message_CodePrefixed(error_code, error_text) ==
    IF error_code \in DOMAIN error_messages THEN error_messages[error_code]
    ELSE IntToStr(error_code) \o " " \o error_text

_get_error_message(error_code, error_text) ==
    IF error_code \in HTTPStatusValues
    THEN IF error_code \in DOMAIN error_messages
         THEN error_messages[error_code]
         ELSE error_text
    ELSE error_text

\* the error dicts make_intervals_request returns
ErrorDict(message) == PyDict(<<"error", "message">>, <<PyBool(TRUE), PyStr(message)>>)

HttpErrorDict(code, message) ==
    PyDict(<<"error", "status_code", "message">>,
           <<PyBool(TRUE), PyInt(code), PyStr(message)>>)

MissingKeyMessage == "API key is required. Set API_KEY env var or pass api_key"
InvalidJsonMessage == "Invalid JSON in response"

\* isinstance(result, dict) and "error" in result
IsErrorResult(result) == IsDict(result) /\ HasKey(result, "error")

\* headers of the outbound request (server.py:156-159)
RequestHeaders(method) ==
    {<<"User-Agent", USER_AGENT>>, <<"Accept", "application/json">>}
    \cup (IF method \in {"POST", "PUT"}
          THEN {<<"Content-Type", "application/json">>} ELSE {})

\* key_to_use (server.py:162)
KeyToUse(api_key, default_key) == IF ~IsNone(api_key) THEN api_key.s ELSE default_key

\* the content= argument of httpx_client.request (server.py:174-192)
RequestContent(method, data) ==
    IF method = "POST" /\ ~IsNone(data) THEN PyStr(Dumps(data)) ELSE PyNone

\* timeout= of httpx_client.request
RequestTimeout == 30

\* the request handed to httpx_client.request (server.py:170-192)
OutboundRequest(url, key, params, method, data) ==
    [method |-> method,
     url |-> INTERVALS_API_BASE_URL \o url,
     headers |-> RequestHeaders(method),
     params |-> params,
     auth |-> <<"API_KEY", key>>,
     timeout |-> RequestTimeout,
     content |-> RequestContent(method, data)]

\* what the remote end can answer: an HTTP response or a transport failure
JsonBody(v) == [text |-> Dumps(v), valid |-> TRUE, value |-> v]
RawBody(s) == [text |-> s, valid |-> FALSE, value |-> PyNone]
HttpResponse(status, body) == [kind |-> "resp", status |-> status, body |-> body]
TransportFailure(msg) == [kind |-> "exc", msg |-> msg]

\* response.is_success, which raise_for_status tests
IsSuccess(status) == status >= 200 /\ status <= 299

\* ResponseResult with the JSONDecodeError handler left out: an undecodable body reads as {}
ResponseResult_NoDecodeCheck(resp) ==
    IF resp.kind = "exc" THEN ErrorDict("Request error: " \o resp.msg)
    ELSE IF ~IsSuccess(resp.status)
    THEN HttpErrorDict(resp.status, _get_error_message(resp.status, resp.body.text))
    ELSE IF resp.body.text # "" /\ resp.body.valid THEN resp.body.value
    ELSE PyDict(<<>>, <<>>)

\* make_intervals_request from the answer on (server.py:193-216): the body is decoded
\* first, raise_for_status runs after it
ResponseResult(resp) ==
    IF resp.kind = "exc" THEN ErrorDict("Request error: " \o resp.msg)
    ELSE IF resp.body.text # "" /\ ~resp.body.valid THEN ErrorDict(InvalidJsonMessage)
    ELSE IF ~IsSuccess(resp.status)
    THEN HttpErrorDict(resp.status, _get_error_message(resp.status, resp.body.text))
    ELSE IF resp.body.text # "" THEN resp.body.value ELSE PyDict(<<>>, <<>>)

\* an entry of the history of issued requests
Pending(req) == [req |-> req, outcome |-> "pending"]
Outcome(result) == IF IsErrorResult(result) THEN "error" ELSE "ok"

\* sent, with the outcome of its last (pending) request filled in
Settle(history, result) ==
    [history EXCEPT ![Len(history)].outcome = Outcome(result)]

\* make_intervals_request up to its await (server.py:156-192): the missing-credential
\* return, or the request it issues
GatewayStart_KeyUnchecked(url, api_key, default_key, params, method, data) ==
    [kind |-> "request",
     req |-> OutboundRequest(url, KeyToUse(api_key, default_key), params, method, data)]

GatewayStart(url, api_key, default_key, params, method, data) ==
    LET key_to_use == KeyToUse(api_key, default_key)
    IN  IF key_to_use = ""
        THEN [kind |-> "return", value |-> ErrorDict(MissingKeyMessage)]
        ELSE [kind |-> "request",
              req |-> OutboundRequest(url, key_to_use, params, method, data)]

-----------------------------------------------------------------------------
(* The remote end *)

\* status codes the remote end answers with
StatusCodes == {200, 204, 299, 304, 400, 401, 403, 404, 422, 429, 500, 503, 599}

\* bodies the remote end answers with
GatewayBodies ==
    {RawBody(""), RawBody("<html>Bad Gateway</html>"),
     JsonBody(PyList(<<>>)),
     JsonBody(PyList(<<PyDict(<<"id", "name">>, <<PyInt(1), PyStr("Ride")>>)>>)),
     JsonBody(PyDict(<<"id">>, <<PyInt(1)>>)),
     JsonBody(PyDict(<<"error">>, <<PyStr("quota")>>))}

TransportFailures == {TransportFailure("timed out"), TransportFailure("All connection attempts failed")}

GatewayResponses ==
    {HttpResponse(st, b) : st \in StatusCodes, b \in GatewayBodies} \cup TransportFailures

-----------------------------------------------------------------------------
(* State shared by the specifications *)

NoCall == [tool |-> "none"]
NoLocals == [none |-> TRUE]
NoReturn == [kind |-> "none"]
ReturnValue(v) == [kind |-> "value", value |-> v]

\* httpx_client before the import, and httpx.AsyncClient() (server.py:77)
NoClient == [created |-> FALSE, is_closed |-> FALSE, closes |-> 0]
AsyncClient == [created |-> TRUE, is_closed |-> FALSE, closes |-> 0]

Idle ==
    /\ pc = "idle"
    /\ call = NoCall
    /\ loc = NoLocals
    /\ sent = <<>>
    /\ ret = NoReturn

\* the invocation is over: the server is ready for the next one
Reset ==
    /\ pc \in {"done", "raised"}
    /\ pc' = "idle"
    /\ call' = NoCall
    /\ loc' = NoLocals
    /\ sent' = <<>>
    /\ ret' = NoReturn
    /\ UNCHANGED <<proc, httpx_client, API_KEY, ATHLETE_ID>>

-----------------------------------------------------------------------------
(* SpecGateway: make_intervals_request called with every kind of argument *)

GatewayUrls == {"/athlete/i123/events", "/athlete/i123/events/11"}
ApiKeyArgs == {PyNone, PyStr(""), PyStr("k")}
ParamArgs == {PyNone, PyDict(<<"oldest">>, <<PyStr("2024-03-01")>>)}
Methods == {"GET", "POST", "PUT", "DELETE"}
DataArgs == {PyNone, PyDict(<<"name", "moving_time">>, <<PyStr("Ride"), PyInt(3600)>>)}

InitGateway ==
    /\ proc = "running"
    /\ httpx_client = AsyncClient
    /\ API_KEY \in {"", "key"}
    /\ ATHLETE_ID = "i123"
    /\ Idle

GatewayCall ==
    /\ pc = "idle"
    /\ \E url \in GatewayUrls, api_key \in ApiKeyArgs, params \in ParamArgs,
          method \in Methods, data \in DataArgs :
          LET start == GatewayStart(url, api_key, API_KEY, params, method, data)
          IN  /\ call' = [tool |-> "make_intervals_request", url |-> url,
                          api_key |-> api_key, params |-> params,
                          method |-> method, data |-> data]
              /\ IF start.kind = "return"
                 THEN /\ pc' = "done"
                      /\ sent' = <<>>
                      /\ ret' = ReturnValue(start.value)
                 ELSE /\ pc' = "await"
                      /\ sent' = <<Pending(start.req)>>
                      /\ ret' = NoReturn
    /\ UNCHANGED <<proc, httpx_client, API_KEY, ATHLETE_ID, loc>>

GatewayRespond ==
    /\ pc = "await"
    /\ call.tool = "make_intervals_request"
    /\ \E resp \in GatewayResponses :
          /\ loc' = [resp |-> resp]
          /\ ret' = ReturnValue(ResponseResult(resp))
          /\ sent' = Settle(sent, ResponseResult(resp))
    /\ pc' = "done"
    /\ UNCHANGED <<proc, httpx_client, API_KEY, ATHLETE_ID, call>>

NextGateway == GatewayCall \/ GatewayRespond \/ Reset

SpecGateway == InitGateway /\ [][NextGateway]_vars

-----------------------------------------------------------------------------
(* Dates (server.py:110-115, 257-261, 330-332) *)

IsLeap(y) == (y % 4 = 0) /\ ((y % 100 # 0) \/ (y % 400 = 0))

DaysInMonth(y, m) ==
    IF m = 2 THEN (IF IsLeap(y) THEN 29 ELSE 28)
    ELSE IF m \in {4, 6, 9, 11} THEN 30 ELSE 31

\* the days of the years before y
DaysBeforeYear(y) ==
    (y - 1) * 365 + ((y - 1) \div 4) - ((y - 1) \div 100) + ((y - 1) \div 400)

RECURSIVE DaysBeforeMonth(_, _)
DaysBeforeMonth(y, m) ==
    IF m = 1 THEN 0 ELSE DaysBeforeMonth(y, m - 1) + DaysInMonth(y, m - 1)

\* date.toordinal(): 1 is 0001-01-01
ToOrdinal(date) == DaysBeforeYear(date.y) + DaysBeforeMonth(date.y, date.m) + date.d

\* date.fromordinal(n)
FromOrdinal(n) ==
    LET guess == ((n * 400) \div 146097) + 1
        y == IF DaysBeforeYear(guess) >= n THEN guess - 1
             ELSE IF DaysBeforeYear(guess + 1) < n THEN guess + 1
             ELSE guess
        rest == n - DaysBeforeYear(y)
        m == CHOOSE k \in 1..12 :
                 DaysBeforeMonth(y, k) < rest /\ rest <= DaysBeforeMonth(y, k) + DaysInMonth(y, k)
    IN  [y |-> y, m |-> m, d |-> rest - DaysBeforeMonth(y, m)]

\* the string is YYYY-MM-DD and names a day of the calendar: what both
\* datetime.strptime(s, "%Y-%m-%d") and datetime.fromisoformat(s) accept among the
\* strings the model draws
IsIsoDate(s) ==
    /\ Len(s) = 10
    /\ SubSeq(s, 5, 5) = "-"
    /\ SubSeq(s, 8, 8) = "-"
    /\ AllDigits(SubSeq(s, 1, 4))
    /\ AllDigits(SubSeq(s, 6, 7))
    /\ AllDigits(SubSeq(s, 9, 10))
    /\ LET y == StrToNat(SubSeq(s, 1, 4))
           m == StrToNat(SubSeq(s, 6, 7))
           d == StrToNat(SubSeq(s, 9, 10))
       IN  /\ y >= 1
           /\ m \in 1..12
           /\ d >= 1
           /\ d <= DaysInMonth(y, m)

ParseDate(s) ==
    [y |-> StrToNat(SubSeq(s, 1, 4)),
     m |-> StrToNat(SubSeq(s, 6, 7)),
     d |-> StrToNat(SubSeq(s, 9, 10))]

\* n written with at least w digits
ZeroPad(n, w) ==
    LET digits == NatToStr(n)
    IN  IF Len(digits) >= w THEN digits
        ELSE SubSeq("0000", 1, w - Len(digits)) \o digits

\* date.strftime("%Y-%m-%d"), for the years from 1000 on
FormatDate(date) ==
    ZeroPad(date.y, 4) \o "-" \o ZeroPad(date.m, 2) \o "-" \o ZeroPad(date.d, 2)

\* the order of the characters of a date string
CharOrder == "-0123456789"
CharRank(c) == CHOOSE i \in 1..Len(CharOrder) : SubSeq(CharOrder, i, i) = c

RECURSIVE StrGreaterEq(_, _)
\* a >= b, for strings of digits and dashes
StrGreaterEq(a, b) ==
    IF Len(b) = 0 THEN TRUE
    ELSE IF Len(a) = 0 THEN FALSE
    ELSE IF SubSeq(a, 1, 1) # SubSeq(b, 1, 1)
    THEN CharRank(SubSeq(a, 1, 1)) > CharRank(SubSeq(b, 1, 1))
    ELSE StrGreaterEq(SubSeq(a, 2, Len(a)), SubSeq(b, 2, Len(b)))

\* datetime.now().strftime("%Y-%m-%d")
Today == "2024-03-15"

\* (date - timedelta(days=n)).strftime("%Y-%m-%d")
DaysBefore(s, n) == FormatDate(FromOrdinal(ToOrdinal(ParseDate(s)) - n))

\* validate_date (server.py:110-115): the string, or the ValueError it raises
validate_date_ok(date_str) == IsIsoDate(date_str)
InvalidDateMessage == "Invalid date format. Please use YYYY-MM-DD."

-----------------------------------------------------------------------------
(* SpecPure: the pure functions, applied to inputs drawn from bounded sets *)

ErrorCodes == (100..599) \cup {0, 99, 600, 999}
ErrorTexts == {"", "<html>Bad Gateway</html>", "{\"detail\": \"no\"}"}

InitPure ==
    /\ proc = "running"
    /\ httpx_client = AsyncClient
    /\ API_KEY = "key"
    /\ ATHLETE_ID = "i123"
    /\ Idle

ErrorMessageCall ==
    /\ pc = "idle"
    /\ \E error_code \in ErrorCodes, error_text \in ErrorTexts :
          /\ call' = [tool |-> "_get_error_message",
                      error_code |-> error_code, error_text |-> error_text]
          /\ ret' = ReturnValue(PyStr(_get_error_message(error_code, error_text)))
    /\ pc' = "done"
    /\ UNCHANGED <<proc, httpx_client, API_KEY, ATHLETE_ID, loc, sent>>

-----------------------------------------------------------------------------
(* Claims about the HTTP gateway *)

GatewayIssued == call.tool = "make_intervals_request" /\ Len(sent) = 1
GatewayDone == call.tool = "make_intervals_request" /\ pc = "done"
GatewayAnswered == GatewayDone /\ Len(sent) = 1

\* C1: every request issued for a POST or PUT call with a non-null body carries the
\* JSON serialization of the body and a JSON Content-Type header; a GET or DELETE
\* request carries no body.
C1_RequestCarriesBody ==
    GatewayIssued =>
        LET req == sent[1].req
        IN  /\ (call.method \in {"POST", "PUT"} /\ ~IsNone(call.data)) =>
                  /\ req.content = PyStr(Dumps(call.data))
                  /\ <<"Content-Type", "application/json">> \in req.headers
            /\ call.method \in {"GET", "DELETE"} => IsNone(req.content)

\* C2: a response with a non-2xx status, whatever its body, makes
\* make_intervals_request return the http-error value carrying the status code.
C2_NonSuccessIsHttpError ==
    (GatewayAnswered /\ loc.resp.kind = "resp" /\ ~IsSuccess(loc.resp.status)) =>
        /\ IsErrorResult(ret.value)
        /\ HasKey(ret.value, "status_code")
        /\ DictGet(ret.value, "status_code") = PyInt(loc.resp.status)

\* the status codes the claim C3 names
CannedCodes == {401, 403, 404, 422, 429, 500, 503}

\* C3: _get_error_message returns the canned message of the table for each of 401,
\* 403, 404, 422, 429, 500 and 503 (the message of 404 containing "The requested
\* endpoint or ID doesn't exist."), and the response text unchanged for every other
\* code, a standard HTTP status or not.
C3_ErrorMessage ==
    (pc = "done" /\ call.tool = "_get_error_message") =>
        LET msg == ret.value.s
            code == call.error_code
        IN  /\ code \in CannedCodes =>
                  /\ msg = error_messages[code]
                  /\ SubSeq(msg, 1, 4) = IntToStr(code) \o " "
            /\ code = 404 => Contains(msg, "The requested endpoint or ID doesn't exist.")
            /\ code \notin CannedCodes => msg = call.error_text

C3_Witness ==
    /\ pc = "done"
    /\ call.tool = "_get_error_message"
    /\ call.error_code = 404
    /\ call.error_text = "<html>Bad Gateway</html>"
    /\ Contains(ret.value.s, "The requested endpoint or ID doesn't exist.")

\* C4: a call with no credential supplied and no default credential configured
\* returns the missing-credential error and issues no HTTP request.
C4_MissingCredential ==
    (call.tool = "make_intervals_request" /\ IsNone(call.api_key) /\ API_KEY = "") =>
        /\ pc = "done"
        /\ ret = ReturnValue(ErrorDict(MissingKeyMessage))
        /\ sent = <<>>

C4_Witness ==
    /\ GatewayDone
    /\ IsNone(call.api_key)
    /\ API_KEY = ""
    /\ call.method = "POST"
    /\ DictGet(ret.value, "message") = PyStr(MissingKeyMessage)

\* C5: a 2xx response whose non-empty body is not valid JSON makes
\* make_intervals_request return the decode error, not a success value.
C5_InvalidJsonIsDecodeError ==
    (GatewayAnswered /\ loc.resp.kind = "resp" /\ IsSuccess(loc.resp.status)
        /\ loc.resp.body.text # "" /\ ~loc.resp.body.valid) =>
        /\ ret.value = ErrorDict(InvalidJsonMessage)
        /\ IsErrorResult(ret.value)
        /\ ~HasKey(ret.value, "status_code")

C5_Witness ==
    /\ GatewayAnswered
    /\ loc.resp.kind = "resp"
    /\ loc.resp.status = 200
    /\ loc.resp.body = RawBody("<html>Bad Gateway</html>")
    /\ ret.value = ErrorDict(InvalidJsonMessage)

-----------------------------------------------------------------------------
(* Result normaliser (server.py:222-301) *)

RECURSIVE DictItems(_)
\* [item for item in items if isinstance(item, dict)]
DictItems(items) ==
    IF Len(items) = 0 THEN <<>>
    ELSE (IF IsDict(Head(items)) THEN <<Head(items)>> ELSE <<>>) \o DictItems(Tail(items))

ActivityFields == {"name", "startTime", "distance"}

_parse_activities_from_result(result) ==
    IF IsList(result) THEN DictItems(result.items)
    ELSE IF IsDict(result)
    THEN LET lists == {i \in 1..Len(result.keys) : IsList(result.vals[i])}
             first == CHOOSE i \in lists : \A j \in lists : i <= j
             found == IF lists # {} THEN DictItems(result.vals[first].items) ELSE <<>>
         IN  IF Len(found) = 0 /\ (\E k \in ActivityFields : HasKey(result, k))
             THEN <<result>>
             ELSE found
    ELSE <<>>

\* IsNamed without the comparison with "Unnamed"
IsNamed_TruthyOnly(activity) == Truthy(DictGet(activity, "name"))

\* activity.get("name") and activity.get("name") != "Unnamed"
IsNamed(activity) ==
    /\ Truthy(DictGet(activity, "name"))
    /\ DictGet(activity, "name") # PyStr("Unnamed")

\* _filter_named_activities that starts at the second activity
_filter_named_activities_SkipsFirst(activities) ==
    IF Len(activities) = 0 THEN <<>> ELSE SelectSeq(Tail(activities), IsNamed)

RECURSIVE _filter_named_activities(_)
\* defined on lists of dicts: activity.get raises AttributeError on any other item
_filter_named_activities(activities) ==
    IF Len(activities) = 0 THEN <<>>
    ELSE (IF IsNamed(Head(activities)) THEN <<Head(activities)>> ELSE <<>>)
         \o _filter_named_activities(Tail(activities))

AllDicts(items) == \A i \in 1..Len(items) : IsDict(items[i])

\* seq[:n]
Slice(seq, n) ==
    IF n >= 0 THEN SubSeq(seq, 1, IF n < Len(seq) THEN n ELSE Len(seq))
    ELSE SubSeq(seq, 1, IF Len(seq) + n > 0 THEN Len(seq) + n ELSE 0)

\* what a tool hands back: a text (with the records it renders, in order) or an exception
TextOf(s) == [kind |-> "text", text |-> s, records |-> <<>>]
Raise(exc, msg) == [kind |-> "raise", exc |-> exc, msg |-> msg]

NoAthleteMessage ==
    "Error: No athlete ID provided and no default ATHLETE_ID found in environment variables."

\* one format_activity_summary block per activity follows the heading
_format_activities_response(activities, athlete_id, include_unnamed) ==
    IF Len(activities) = 0
    THEN IF include_unnamed
         THEN TextOf("No valid activities found for athlete " \o athlete_id
                     \o " in the specified date range.")
         ELSE TextOf("No named activities found for athlete " \o athlete_id
                     \o " in the specified date range. Try with include_unnamed=True to see all activities.")
    ELSE [kind |-> "text", text |-> "Activities:", records |-> activities]

\* str(v) inside an f-string
PyFormat(v) ==
    CASE v.t = "null" -> "None"
      [] v.t = "str" -> v.s
      [] v.t = "num" -> IntToStr(v.n)
      [] v.t = "bool" -> (IF v.b THEN "True" ELSE "False")
      [] OTHER -> Dumps(v)

RECURSIVE ReprJoin(_)
ReprJoin(items) ==
    LET one == IF Head(items).t = "str" THEN "'" \o Head(items).s \o "'"
               ELSE PyFormat(Head(items))
    IN  IF Len(items) = 0 THEN ""
        ELSE IF Len(items) = 1 THEN one
        ELSE one \o ", " \o ReprJoin(Tail(items))

\* str(list)
ListRepr(items) == "[" \o ReprJoin(items) \o "]"

\* result.get("message", "Unknown error") inside an f-string
MessageOr(result, default) ==
    IF HasKey(result, "message") THEN PyFormat(DictGet(result, "message")) ELSE default

-----------------------------------------------------------------------------
(* get_activities (server.py:250-277, 304-371) *)

\* timedelta(days=...) of the default start date and of the backfill window
DefaultWindowDays == 30
BackfillStartDays == 60
BackfillEndDays == 1

ActivitiesUrl(athlete_id) == "/athlete/" \o athlete_id \o "/activities"

\* the step a tool takes after an answer: it returns, raises or issues a request
Return(r, l) == [next |-> "return", ret |-> r, loc |-> l, req |-> PyNone]
Throw(r, l) == [next |-> "raise", ret |-> r, loc |-> l, req |-> PyNone]
Request(req, l) == [next |-> "request", ret |-> NoReturn, loc |-> l, req |-> req]

\* older_start_date >= older_end_date, on the formatted dates
WindowInverted(start_date) ==
    StrGreaterEq(DaysBefore(start_date, BackfillStartDays),
                 DaysBefore(start_date, BackfillEndDays))


_fetch_more_activities_start(athlete_id, start_date, api_key, default_key, api_limit) ==
    IF ~IsIsoDate(start_date)
    THEN [kind |-> "raise", start |-> PyNone]
    ELSE IF WindowInverted(start_date)
    THEN [kind |-> "return", start |-> PyNone]
    ELSE [kind |-> "request",
          start |-> GatewayStart(ActivitiesUrl(athlete_id), api_key, default_key,
                        PyDict(<<"oldest", "newest", "limit">>,
                               <<PyStr(DaysBefore(start_date, BackfillStartDays)),
                                 PyStr(DaysBefore(start_date, BackfillEndDays)),
                                 PyInt(api_limit)>>),
                        "GET", PyNone)]

\* get_activities_finish with the backfilled records put before the primary ones
get_activities_finish_BackfillFirst(c, l, more_result) ==
    IF IsList(more_result) /\ ~AllDicts(more_result.items)
    THEN Throw(Raise("AttributeError", "object has no attribute 'get'"),
               [l EXCEPT !.more_result = more_result])
    ELSE LET more == IF IsList(more_result)
                     THEN _filter_named_activities(more_result.items)
                     ELSE <<>>
         IN  Return(_format_activities_response(Slice(more \o l.activities, c.limit),
                                                l.athlete_id_to_use, c.include_unnamed),
                    [l EXCEPT !.more_result = more_result])

\* get_activities_finish reporting a failed backfill request as the primary one is
get_activities_finish_ReportsFailure(c, l, more_result) ==
    IF IsList(more_result) /\ ~AllDicts(more_result.items)
    THEN Throw(Raise("AttributeError", "object has no attribute 'get'"),
               [l EXCEPT !.more_result = more_result])
    ELSE IF IsErrorResult(more_result)
    THEN Return(TextOf("Error fetching activities: "
                       \o MessageOr(more_result, "Unknown error")),
                [l EXCEPT !.more_result = more_result])
    ELSE LET more == IF IsList(more_result)
                     THEN _filter_named_activities(more_result.items)
                     ELSE <<>>
         IN  Return(_format_activities_response(Slice(l.activities \o more, c.limit),
                                                l.athlete_id_to_use, c.include_unnamed),
                    [l EXCEPT !.more_result = more_result])

\* get_activities once _fetch_more_activities has its answer (server.py:275-277, 366-371)
get_activities_finish(c, l, more_result) ==
    IF IsList(more_result) /\ ~AllDicts(more_result.items)
    THEN Throw(Raise("AttributeError", "object has no attribute 'get'"),
               [l EXCEPT !.more_result = more_result])
    ELSE LET more == IF IsList(more_result)
                     THEN _filter_named_activities(more_result.items)
                     ELSE <<>>
         IN  Return(_format_activities_response(Slice(l.activities \o more, c.limit),
                                                l.athlete_id_to_use, c.include_unnamed),
                    [l EXCEPT !.more_result = more_result])

\* NeedsMore asking for the earlier window whatever the count
NeedsMore_Always(activities, limit) == TRUE

\* len(activities) < limit (server.py:362)
NeedsMore(activities, limit) == Len(activities) < limit

\* primary_error reissuing the failed request instead of reporting it
primary_error_Retry(c, l, result) ==
    Request(OutboundRequest(ActivitiesUrl(l.athlete_id_to_use), KeyToUse(c.api_key, API_KEY),
                            PyDict(<<"oldest", "newest", "limit">>,
                                   <<PyStr(l.start_date), PyStr(l.end_date), PyInt(l.api_limit)>>),
                            "GET", PyNone), l)

\* the error branch of get_activities (server.py:344-346)
primary_error(c, l, result) ==
    Return(TextOf("Error fetching activities: " \o MessageOr(result, "Unknown error")), l)

\* get_activities once the primary request has its answer (server.py:343-366)
get_activities_after_primary(c, l0, result) ==
    LET l == [l0 EXCEPT !.result = result]
        parsed == _parse_activities_from_result(result)
        named == _filter_named_activities(parsed)
        la == [l EXCEPT !.activities = IF c.include_unnamed THEN parsed ELSE named,
                        !.filtered = ~c.include_unnamed]
        more == _fetch_more_activities_start(l.athlete_id_to_use, l.start_date,
                                             c.api_key, API_KEY, l.api_limit)
    IN  IF IsErrorResult(result)
        THEN primary_error(c, l, result)
        ELSE IF ~Truthy(result)
        THEN Return(TextOf("No activities found for athlete " \o l.athlete_id_to_use
                           \o " in the specified date range."), l)
        ELSE IF Len(parsed) = 0
        THEN Return(TextOf("No valid activities found for athlete " \o l.athlete_id_to_use
                           \o " in the specified date range."), l)
        ELSE IF ~c.include_unnamed /\ NeedsMore(named, c.limit)
        THEN CASE more.kind = "raise" ->
                    Throw(Raise("ValueError", "Invalid isoformat string"), la)
               [] more.kind = "return" -> get_activities_finish(c, la, PyNone)
               [] more.kind = "request" /\ more.start.kind = "return" ->
                    get_activities_finish(c, la, more.start.value)
               [] OTHER -> Request(more.start.req, la)
        ELSE Return(_format_activities_response(Slice(la.activities, c.limit),
                                                l.athlete_id_to_use, c.include_unnamed), la)

-----------------------------------------------------------------------------
(* delete_events_by_date_range (server.py:643-675) *)

EventsUrl(athlete_id) == "/athlete/" \o athlete_id \o "/events"
EventUrl(athlete_id, event) ==
    "/athlete/" \o athlete_id \o "/events/" \o PyFormat(DictGet(event, "id"))

DeletedText(events, failed_events) ==
    TextOf("Deleted " \o IntToStr(Len(events) - Len(failed_events))
           \o " events. Failed to delete " \o IntToStr(Len(failed_events))
           \o " events: " \o ListRepr(failed_events))

\* delete_loop leaving the loop at the first failed deletion
delete_loop_StopOnFailure(c, l, i) ==
    IF i > Len(l.events) \/ Len(l.failed_events) > 0
    THEN Return(DeletedText(l.events, l.failed_events), l)
    ELSE IF ~IsDict(l.events[i])
    THEN Throw(Raise("AttributeError", "object has no attribute 'get'"), l)
    ELSE Request(GatewayStart(EventUrl(l.athlete_id_to_use, l.events[i]),
                              c.api_key, API_KEY, PyNone, "DELETE", PyNone).req,
                 [l EXCEPT !.i = i])

\* the loop of server.py:669-674 from event i on, up to its next await
delete_loop(c, l, i) ==
    IF i > Len(l.events)
    THEN Return(DeletedText(l.events, l.failed_events), l)
    ELSE IF ~IsDict(l.events[i])
    THEN Throw(Raise("AttributeError", "object has no attribute 'get'"), l)
    ELSE Request(GatewayStart(EventUrl(l.athlete_id_to_use, l.events[i]),
                              c.api_key, API_KEY, PyNone, "DELETE", PyNone).req,
                 [l EXCEPT !.i = i])


RecordFailure(failed_events, event, result) ==
    IF IsErrorResult(result) THEN Append(failed_events, DictGet(event, "id"))
    ELSE failed_events

\* delete_after_listing taking a failed listing for an empty one
delete_after_listing_IgnoresError(c, l, result) ==
    delete_loop(c, [l EXCEPT !.events = IF IsList(result) THEN result.items ELSE <<>>,
                             !.listed = TRUE], 1)

\* delete_events_by_date_range once the listing has its answer (server.py:665-669)
delete_after_listing(c, l, result) ==
    IF IsErrorResult(result)
    THEN Return(TextOf("Error deleting events: " \o PyFormat(DictGet(result, "message"))), l)
    ELSE delete_loop(c, [l EXCEPT !.events = IF IsList(result) THEN result.items ELSE <<>>,
                                  !.listed = TRUE], 1)

-----------------------------------------------------------------------------
(* add_or_update_event (server.py:598-613, 1173-1284) *)

\* mapping of _resolve_workout_type: the workout and its keywords, in order
workout_type_mapping ==
    << <<"Ride", <<"bike", "cycle", "cycling", "ride">> >>,
       <<"Run", <<"run", "running", "jog", "jogging">> >>,
       <<"Swim", <<"swim", "swimming", "pool">> >>,
       <<"Walk", <<"walk", "walking", "hike", "hiking">> >>,
       <<"Row", <<"row", "rowing">> >> >>

RECURSIVE FirstWorkout(_, _)
\* the first workout of mapping[i:] with a keyword in name_lower, "Ride" without one
FirstWorkout(name_lower, i) ==
    IF i > Len(workout_type_mapping) THEN "Ride"
    ELSE IF \E k \in 1..Len(workout_type_mapping[i][2]) :
               Contains(name_lower, workout_type_mapping[i][2][k])
    THEN workout_type_mapping[i][1]
    ELSE FirstWorkout(name_lower, i + 1)

\* name, workout_type: str
_resolve_workout_type(name, workout_type) ==
    IF workout_type # "" THEN workout_type
    ELSE FirstWorkout(IF name # "" THEN Lower(name) ELSE "", 1)

\* repr of the values of data, and f"{data}"
Repr(v) == IF v.t = "str" THEN "'" \o v.s \o "'" ELSE PyFormat(v)

RECURSIVE DictReprFrom(_, _)
DictReprFrom(d, i) ==
    LET one == "'" \o d.keys[i] \o "': " \o Repr(d.vals[i])
    IN  IF i > Len(d.keys) THEN ""
        ELSE IF i = Len(d.keys) THEN one
        ELSE one \o ", " \o DictReprFrom(d, i + 1)

DictRepr(d) == "{" \o DictReprFrom(d, 1) \o "}"

\* data (server.py:1258-1266), for a call without a workout_doc
EventData(c, start_date) ==
    PyDict(<<"start_date_local", "category", "name", "description", "type",
             "moving_time", "distance">>,
           << PyStr(start_date \o "T00:00:00"), PyStr("WORKOUT"), PyStr(c.name), PyNone,
              PyStr(_resolve_workout_type(c.name, c.workout_type)),
              c.moving_time, c.distance >>)

\* url= and method= of the request (server.py:1268, 1271)
EventWriteUrl(athlete_id, event_id) ==
    "/athlete/" \o athlete_id \o "/events"
    \o (IF Truthy(event_id) THEN "/" \o event_id.s ELSE "")

\* the method when every event is posted as a new one
EventWriteMethod_AlwaysPost(event_id) == "POST"

EventWriteMethod(event_id) == IF Truthy(event_id) THEN "PUT" ELSE "POST"

\* action (server.py:1273)
EventAction(event_id) == IF Truthy(event_id) THEN "updated" ELSE "created"

\* add_or_update_event once the request has its answer (server.py:1273-1282)
add_or_update_event_finish(c, l, result) ==
    LET action == EventAction(c.event_id)
    IN  IF IsErrorResult(result)
        THEN Return(TextOf("Error " \o action \o " event: "
                           \o MessageOr(result, "Unknown error")
                           \o ", data used: " \o DictRepr(l.data)), l)
        ELSE IF ~Truthy(result)
        THEN Return(TextOf("No events " \o action \o " for athlete "
                           \o l.athlete_id_to_use \o "."), l)
        ELSE IF IsDict(result)
        THEN Return(TextOf("Successfully " \o action \o " event: "
                           \o DumpsIndent(result, 0)), l)
        ELSE Return(TextOf("Event " \o action \o " successfully at " \o l.start_date), l)

-----------------------------------------------------------------------------
(* The remote end, as the tools see it *)

ToolStatusCodes == {200, 404}

CommonBodies ==
    {RawBody(""), RawBody("<html>Bad Gateway</html>"),
     JsonBody(PyDict(<<"error">>, <<PyStr("quota")>>))}

\* the records of a page: the record at position p has id p
ActivityKinds == {"named", "unnamed", "scalar"}
ActivityItem(kind, p) ==
    CASE kind = "named" -> PyDict(<<"id", "name">>, <<PyInt(p), PyStr("Ride")>>)
      [] kind = "unnamed" -> PyDict(<<"id", "name">>, <<PyInt(p), PyStr("Unnamed")>>)
      [] OTHER -> PyStr("note")

ActivityPages ==
    UNION {{[p \in 1..n |-> ActivityItem(f[p], p)] : f \in [1..n -> ActivityKinds]} :
           n \in 0..MaxPage}

ActivityBodies ==
    CommonBodies
    \cup {JsonBody(PyList(page)) : page \in ActivityPages}
    \cup {JsonBody(PyDict(<<"id", "name">>, <<PyInt(7), PyStr("Run")>>)),
          JsonBody(PyDict(<<"activities">>, <<PyList(<<ActivityItem("named", 1)>>)>>))}

EventKinds == {"event", "scalar"}
EventItem(kind, p) ==
    IF kind = "event" THEN PyDict(<<"id", "name">>, <<PyInt(10 + p), PyStr("Workout")>>)
    ELSE PyStr("note")

EventPages ==
    UNION {{[p \in 1..n |-> EventItem(f[p], p)] : f \in [1..n -> EventKinds]} :
           n \in 0..MaxEvents}

EventBodies ==
    CommonBodies
    \cup {JsonBody(PyList(page)) : page \in EventPages}
    \cup {JsonBody(PyDict(<<"id">>, <<PyInt(11)>>))}

DeleteBodies == CommonBodies \cup {JsonBody(PyDict(<<>>, <<>>))}

\* the answers to the creation or the update of an event
EventWriteBodies ==
    CommonBodies
    \cup {JsonBody(PyDict(<<"id", "name">>, <<PyInt(42), PyStr("Tempo")>>)),
          JsonBody(PyDict(<<>>, <<>>)),
          JsonBody(PyList(<<>>)),
          JsonBody(PyList(<<PyDict(<<"id">>, <<PyInt(42)>>)>>))}

EndsWith(s, suffix) ==
    Len(s) >= Len(suffix) /\ SubSeq(s, Len(s) - Len(suffix) + 1, Len(s)) = suffix

\* the answers to a request: any status with a body of the endpoint's kind, or a
\* transport failure
ResponsesTo(req) ==
    LET bodies == IF req.method = "DELETE" THEN DeleteBodies
                  ELSE IF req.method \in {"POST", "PUT"} THEN EventWriteBodies
                  ELSE IF EndsWith(req.url, "/activities") THEN ActivityBodies
                  ELSE EventBodies
    IN  {HttpResponse(st, b) : st \in ToolStatusCodes, b \in bodies}
        \cup {TransportFailure("timed out")}

-----------------------------------------------------------------------------
(* Spec: the server, from its import to the tools it serves *)

AthleteIdArgs == {PyNone, PyStr("")}
ToolKeyArgs == {PyNone, PyStr("k")}
StartDateArgs == {PyNone, PyStr("2024-03-01"), PyStr("yesterday")}
Limits == (-1)..MaxLimit
DateArgs == {"2024-03-01", "yesterday"}

Init ==
    /\ proc = "loading"
    /\ httpx_client = NoClient
    /\ API_KEY \in {"", "key"}
    /\ ATHLETE_ID \in {"", "i123", "x1"}
    /\ Idle

\* the import of server.py (server.py:98-107): the ValueError ends the process
import_server ==
    /\ proc = "loading"
    /\ httpx_client' = AsyncClient
    /\ proc' = IF AthleteIdMatches(ATHLETE_ID) THEN "running" ELSE "failed"
    /\ UNCHANGED <<API_KEY, ATHLETE_ID, pc, call, loc, sent, ret>>

\* how the service stops: mcp.run() returns, or an exception ends it
StopCauses == {"normal", "exception"}

\* the client after a lifespan without its finally: closed on a normal exit only
ClientAfterLifespan_NoFinally(client, cause) ==
    IF cause = "normal"
    THEN [client EXCEPT !.is_closed = TRUE, !.closes = client.closes + 1]
    ELSE client

\* the client after the lifespan (server.py:88-91): the finally closes it on both ways out
ClientAfterLifespan(client, cause) ==
    [client EXCEPT !.is_closed = TRUE, !.closes = client.closes + 1]

\* the end of the lifespan entered by mcp.run() (server.py:80-95, 1288-1289): the
\* service leaves the yield, the client is closed and a pending invocation is dropped
lifespan_exit ==
    /\ proc = "running"
    /\ \E cause \in StopCauses :
          /\ proc' = IF cause = "normal" THEN "stopped" ELSE "crashed"
          /\ httpx_client' = ClientAfterLifespan(httpx_client, cause)
    /\ pc' = "idle"
    /\ call' = NoCall
    /\ loc' = NoLocals
    /\ sent' = <<>>
    /\ ret' = NoReturn
    /\ UNCHANGED <<API_KEY, ATHLETE_ID>>

\* the tool takes the step: pc, loc, ret and the history of requests follow it
Take(step, history, await_pc) ==
    /\ pc' = CASE step.next = "request" -> await_pc
               [] step.next = "raise" -> "raised"
               [] OTHER -> "done"
    /\ loc' = step.loc
    /\ ret' = step.ret
    /\ sent' = IF step.next = "request" THEN Append(history, Pending(step.req))
               ELSE history

\* get_activities up to its first await (server.py:323-341)
get_activities_start(c) ==
    LET athlete_id_to_use == IF ~IsNone(c.athlete_id) THEN c.athlete_id.s ELSE ATHLETE_ID
        start == IF ~Truthy(c.start_date) THEN DaysBefore(Today, DefaultWindowDays)
                 ELSE c.start_date.s
        api_limit == IF ~c.include_unnamed THEN c.limit * 3 ELSE c.limit
        l == [athlete_id_to_use |-> athlete_id_to_use, start_date |-> start,
              end_date |-> Today, api_limit |-> api_limit, result |-> PyNone,
              activities |-> <<>>, filtered |-> FALSE, more_result |-> PyNone]
        first == GatewayStart(ActivitiesUrl(athlete_id_to_use), c.api_key, API_KEY,
                     PyDict(<<"oldest", "newest", "limit">>,
                            <<PyStr(start), PyStr(Today), PyInt(api_limit)>>),
                     "GET", PyNone)
    IN  IF athlete_id_to_use = ""
        THEN Return(TextOf(NoAthleteMessage), l)
        ELSE IF first.kind = "return"
        THEN get_activities_after_primary(c, l, first.value)
        ELSE Request(first.req, l)

get_activities_call ==
    /\ proc = "running"
    /\ pc = "idle"
    /\ \E athlete_id \in AthleteIdArgs, api_key \in ToolKeyArgs,
          start_date \in StartDateArgs, limit \in Limits, include_unnamed \in BOOLEAN :
          LET c == [tool |-> "get_activities", athlete_id |-> athlete_id,
                    api_key |-> api_key, start_date |-> start_date,
                    end_date |-> PyNone, limit |-> limit,
                    include_unnamed |-> include_unnamed]
          IN  /\ call' = c
              /\ Take(get_activities_start(c), <<>>, "get_activities_primary")
    /\ UNCHANGED <<proc, httpx_client, API_KEY, ATHLETE_ID>>

get_activities_primary ==
    /\ pc = "get_activities_primary"
    /\ \E resp \in ResponsesTo(sent[Len(sent)].req) :
          Take(get_activities_after_primary(call, loc, ResponseResult(resp)),
               Settle(sent, ResponseResult(resp)), "get_activities_backfill")
    /\ UNCHANGED <<proc, httpx_client, API_KEY, ATHLETE_ID, call>>

get_activities_backfill ==
    /\ pc = "get_activities_backfill"
    /\ \E resp \in ResponsesTo(sent[Len(sent)].req) :
          Take(get_activities_finish(call, loc, ResponseResult(resp)),
               Settle(sent, ResponseResult(resp)), "done")
    /\ UNCHANGED <<proc, httpx_client, API_KEY, ATHLETE_ID, call>>

delete_events_by_date_range_call ==
    /\ proc = "running"
    /\ pc = "idle"
    /\ \E start_date \in DateArgs, end_date \in DateArgs,
          athlete_id \in AthleteIdArgs, api_key \in ToolKeyArgs :
          LET c == [tool |-> "delete_events_by_date_range", start_date |-> start_date,
                    end_date |-> end_date, athlete_id |-> athlete_id, api_key |-> api_key]
              athlete_id_to_use == IF ~IsNone(athlete_id) THEN athlete_id.s ELSE ATHLETE_ID
              l == [athlete_id_to_use |-> athlete_id_to_use, listed |-> FALSE,
                    events |-> <<>>, i |-> 0, failed_events |-> <<>>]
              first == GatewayStart(EventsUrl(athlete_id_to_use), api_key, API_KEY,
                           PyDict(<<"oldest", "newest">>,
                                  <<PyStr(start_date), PyStr(end_date)>>),
                           "GET", PyNone)
          IN  /\ call' = c
              /\ IF athlete_id_to_use = ""
                 THEN Take(Return(TextOf(NoAthleteMessage), l), <<>>, "done")
                 ELSE IF ~validate_date_ok(start_date) \/ ~validate_date_ok(end_date)
                 THEN Take(Throw(Raise("ValueError", InvalidDateMessage), l), <<>>, "done")
                 ELSE IF first.kind = "return"
                 THEN Take(delete_after_listing(c, l, first.value), <<>>, "delete_each")
                 ELSE Take(Request(first.req, l), <<>>, "delete_listing")
    /\ UNCHANGED <<proc, httpx_client, API_KEY, ATHLETE_ID>>

delete_listing ==
    /\ pc = "delete_listing"
    /\ \E resp \in ResponsesTo(sent[Len(sent)].req) :
          Take(delete_after_listing(call, loc, ResponseResult(resp)),
               Settle(sent, ResponseResult(resp)), "delete_each")
    /\ UNCHANGED <<proc, httpx_client, API_KEY, ATHLETE_ID, call>>

delete_each ==
    /\ pc = "delete_each"
    /\ \E resp \in ResponsesTo(sent[Len(sent)].req) :
          LET result == ResponseResult(resp)
              l == [loc EXCEPT !.failed_events =
                        RecordFailure(loc.failed_events, loc.events[loc.i], result)]
          IN  Take(delete_loop(call, l, loc.i + 1), Settle(sent, result), "delete_each")
    /\ UNCHANGED <<proc, httpx_client, API_KEY, ATHLETE_ID, call>>

EventWorkoutTypes == {"", "Run"}
EventNames == {"Morning swim", "Tempo"}
EventIdArgs == {PyNone, PyStr(""), PyStr("42")}
EventStartArgs == {PyNone, PyStr("2024-03-01")}
MovingTimeArgs == {PyNone, PyInt(3600)}

\* add_or_update_event up to its await (server.py:1248-1272), without a workout_doc
add_or_update_event_call ==
    /\ proc = "running"
    /\ pc = "idle"
    /\ \E workout_type \in EventWorkoutTypes, name \in EventNames,
          athlete_id \in AthleteIdArgs, api_key \in ToolKeyArgs,
          event_id \in EventIdArgs, start_date \in EventStartArgs,
          moving_time \in MovingTimeArgs :
          LET c == [tool |-> "add_or_update_event", workout_type |-> workout_type,
                    name |-> name, athlete_id |-> athlete_id, api_key |-> api_key,
                    event_id |-> event_id, start_date |-> start_date,
                    workout_doc |-> PyNone, moving_time |-> moving_time,
                    distance |-> PyNone]
              athlete_id_to_use == IF ~IsNone(athlete_id) THEN athlete_id.s ELSE ATHLETE_ID
              start == IF ~Truthy(start_date) THEN Today ELSE start_date.s
              data == EventData(c, start)
              l == [athlete_id_to_use |-> athlete_id_to_use, start_date |-> start,
                    data |-> data]
              first == GatewayStart(EventWriteUrl(athlete_id_to_use, event_id), api_key,
                                    API_KEY, PyNone, EventWriteMethod(event_id), data)
          IN  /\ call' = c
              /\ IF athlete_id_to_use = ""
                 THEN Take(Return(TextOf(NoAthleteMessage),
                                  [athlete_id_to_use |-> "", start_date |-> "",
                                   data |-> PyNone]), <<>>, "done")
                 ELSE IF first.kind = "return"
                 THEN Take(add_or_update_event_finish(c, l, first.value), <<>>, "done")
                 ELSE Take(Request(first.req, l), <<>>, "add_or_update_event_await")
    /\ UNCHANGED <<proc, httpx_client, API_KEY, ATHLETE_ID>>

add_or_update_event_await ==
    /\ pc = "add_or_update_event_await"
    /\ \E resp \in ResponsesTo(sent[Len(sent)].req) :
          Take(add_or_update_event_finish(call, loc, ResponseResult(resp)),
               Settle(sent, ResponseResult(resp)), "done")
    /\ UNCHANGED <<proc, httpx_client, API_KEY, ATHLETE_ID, call>>

Next ==
    \/ import_server
    \/ lifespan_exit
    \/ add_or_update_event_call
    \/ add_or_update_event_await
    \/ get_activities_call
    \/ get_activities_primary
    \/ get_activities_backfill
    \/ delete_events_by_date_range_call
    \/ delete_listing
    \/ delete_each
    \/ Reset

Spec == Init /\ [][Next]_vars

-----------------------------------------------------------------------------
(* SpecConcurrent: two invocations of get_activities on the event loop.  Each
   task has its own pc, call, loc and ret; sent is the traffic of the shared
   client, in the order the requests were issued. *)

Tasks == {1, 2}

ConcurrentCalls ==
    { [tool |-> "get_activities", athlete_id |-> athlete_id, api_key |-> PyNone,
       start_date |-> PyNone, end_date |-> PyNone, limit |-> limit,
       include_unnamed |-> include_unnamed] :
      athlete_id \in AthleteIdArgs, limit \in {1, 2}, include_unnamed \in BOOLEAN }

ConcurrentResponses ==
    { HttpResponse(200, JsonBody(PyList(<<ActivityItem("named", 1)>>))),
      HttpResponse(200, JsonBody(PyList(<<ActivityItem("unnamed", 1),
                                          ActivityItem("named", 2)>>))),
      HttpResponse(200, JsonBody(PyList(<<ActivityItem("unnamed", 1)>>))),
      HttpResponse(404, RawBody("")),
      TransportFailure("timed out") }

InitConcurrent ==
    /\ proc = "running"
    /\ httpx_client = AsyncClient
    /\ API_KEY = "key"
    /\ ATHLETE_ID = "i123"
    /\ pc = [t \in Tasks |-> "idle"]
    /\ call = [t \in Tasks |-> NoCall]
    /\ loc = [t \in Tasks |-> NoLocals]
    /\ ret = [t \in Tasks |-> NoReturn]
    /\ sent = <<>>

\* the locals of the tasks when one module-level slot holds them for all
StoreLocals_Shared(locals, t, l) == [u \in Tasks |-> l]

\* the locals of task t are its coroutine's own
StoreLocals(locals, t, l) == [locals EXCEPT ![t] = l]

\* get_activities of task t resumed at pcv with the result of its request
Resume(pcv, c, l, result) ==
    IF pcv = "get_activities_primary" THEN get_activities_after_primary(c, l, result)
    ELSE get_activities_finish(c, l, result)

AwaitAfter(pcv) ==
    IF pcv = "idle" THEN "get_activities_primary" ELSE "get_activities_backfill"

\* task t takes the step
TaskTake(t, step, traffic) ==
    /\ pc' = [pc EXCEPT ![t] = CASE step.next = "request" -> AwaitAfter(pc[t])
                                  [] step.next = "raise" -> "raised"
                                  [] OTHER -> "done"]
    /\ loc' = StoreLocals(loc, t, step.loc)
    /\ ret' = [ret EXCEPT ![t] = step.ret]
    /\ sent' = IF step.next = "request"
               THEN Append(traffic, [task |-> t, req |-> step.req, answered |-> FALSE])
               ELSE traffic

\* the position in the traffic of the request task t awaits
AwaitedBy(t) ==
    CHOOSE i \in 1..Len(sent) : sent[i].task = t /\ ~sent[i].answered

task_call(t) ==
    /\ pc[t] = "idle"
    /\ \E c \in ConcurrentCalls :
          /\ call' = [call EXCEPT ![t] = c]
          /\ TaskTake(t, get_activities_start(c), sent)
    /\ UNCHANGED <<proc, httpx_client, API_KEY, ATHLETE_ID>>

task_resume(t) ==
    /\ pc[t] \in {"get_activities_primary", "get_activities_backfill"}
    /\ \E resp \in ConcurrentResponses :
          TaskTake(t, Resume(pc[t], call[t], loc[t], ResponseResult(resp)),
                   [sent EXCEPT ![AwaitedBy(t)] =
                        [task |-> t, req |-> @.req, answered |-> TRUE, resp |-> resp]])
    /\ UNCHANGED <<proc, httpx_client, API_KEY, ATHLETE_ID, call>>

NextConcurrent == \E t \in Tasks : task_call(t) \/ task_resume(t)

SpecConcurrent == InitConcurrent /\ [][NextConcurrent]_vars

-----------------------------------------------------------------------------
(* Claims about get_activities and delete_events_by_date_range *)

ActivitiesCall == call.tool = "get_activities"
ActivitiesOver == ActivitiesCall /\ pc \in {"done", "raised"}
DeleteCall == call.tool = "delete_events_by_date_range"

\* the primary request was answered without an error
PrimaryOk == Len(sent) >= 1 /\ sent[1].outcome = "ok"

\* the records of the primary page, and those the named-filter leaves of them
PrimaryRecords == _parse_activities_from_result(loc.result)
PrimaryNamed == _filter_named_activities(PrimaryRecords)

\* the earlier window can be computed from the start date and is not inverted
EarlierWindowOk == IsIsoDate(loc.start_date) /\ ~WindowInverted(loc.start_date)

\* the request for the 60 days before the start date
IsBackfill(req) ==
    /\ req.method = "GET"
    /\ EndsWith(req.url, "/activities")
    /\ DictGet(req.params, "oldest") = PyStr(DaysBefore(loc.start_date, 60))
    /\ DictGet(req.params, "newest") = PyStr(DaysBefore(loc.start_date, 1))

\* C6 as stated: with unnamed activities excluded, the backfill request is issued
\* if and only if fewer records than the limit are left after the named-filter and
\* the earlier window is not inverted; and at most once.
C6_BackfillIffTooFew ==
    (ActivitiesOver /\ ~call.include_unnamed /\ PrimaryOk) =>
        /\ Len(sent) <= 2
        /\ Len(sent) = 2 <=> (Len(PrimaryNamed) < call.limit /\ EarlierWindowOk)

\* C6 amended: with unnamed activities excluded, the backfill request is issued if
\* and only if the primary page holds at least one record, fewer records than the
\* limit are left of it after the named-filter, and the earlier window is computed
\* and not inverted; it is issued at most once.
C6_BackfillIffTooFewOfSome ==
    (ActivitiesOver /\ ~call.include_unnamed /\ PrimaryOk) =>
        /\ Len(sent) <= 2
        /\ Len(sent) = 2 =>
              /\ IsBackfill(sent[2].req)
              /\ sent[2].outcome # "pending"
        /\ Len(sent) = 2 <=>
              /\ Len(PrimaryRecords) > 0
              /\ Len(PrimaryNamed) < call.limit
              /\ EarlierWindowOk

C6_Witness ==
    /\ ActivitiesOver
    /\ ~call.include_unnamed
    /\ call.limit = 2
    /\ Len(PrimaryRecords) = 2
    /\ Len(PrimaryNamed) = 1
    /\ Len(sent) = 2
    /\ IsBackfill(sent[2].req)

RECURSIVE IsSubsequence(_, _)
\* a is b with some of its elements left out
IsSubsequence(a, b) ==
    IF Len(a) = 0 THEN TRUE
    ELSE IF Len(b) = 0 THEN FALSE
    ELSE IF Head(a) = Head(b) THEN IsSubsequence(Tail(a), Tail(b))
    ELSE IsSubsequence(a, Tail(b))

\* the page the backfill request returned
BackfillRecords == IF IsList(loc.more_result) THEN loc.more_result.items ELSE <<>>

\* C7: with limit >= 0, get_activities returns at most limit records: records of the
\* primary page in the order the API gave them, then records of the backfilled page
\* in the order the API gave them.
C7_TruncatedInOrder ==
    (ActivitiesCall /\ pc = "done" /\ call.limit >= 0) =>
        /\ Len(ret.records) <= call.limit
        /\ \E k \in 0..Len(ret.records) :
              /\ IsSubsequence(SubSeq(ret.records, 1, k), PrimaryRecords)
              /\ IsSubsequence(SubSeq(ret.records, k + 1, Len(ret.records)), BackfillRecords)

C7_Witness ==
    /\ ActivitiesCall
    /\ pc = "done"
    /\ call.limit = 2
    /\ Len(sent) = 2
    /\ Len(PrimaryNamed) = 1
    /\ Len(_filter_named_activities(DictItems(BackfillRecords))) = 2
    /\ Len(ret.records) = 2
    /\ ret.records[1] = PrimaryNamed[1]
    /\ ret.records[2] = BackfillRecords[1]

\* C8: no invocation issues a request again after it failed: a failed primary
\* request of get_activities is reported as an error text with no further request,
\* get_activities issues at most two requests, and its second one is the backfill
\* request, issued after a successful primary request.
C8_NoRetry ==
    /\ \A i \in 1..Len(sent) : \A j \in (i + 1)..Len(sent) :
          sent[i].outcome = "error" => sent[j].req # sent[i].req
    /\ (Len(sent) >= 1 /\ sent[1].outcome = "error") => Len(sent) = 1
    /\ ActivitiesCall =>
          /\ Len(sent) <= 2
          /\ Len(sent) = 2 =>
                /\ sent[1].outcome = "ok"
                /\ IsBackfill(sent[2].req)
                /\ sent[2].req # sent[1].req
          /\ (pc = "done" /\ Len(sent) = 1 /\ sent[1].outcome = "error") =>
                /\ ret.kind = "text"
                /\ SubSeq(ret.text, 1, 27) = "Error fetching activities: "

C8_Witness ==
    /\ ActivitiesCall
    /\ pc = "done"
    /\ Len(sent) = 1
    /\ sent[1].outcome = "error"
    /\ ret.text = "Error fetching activities: 404 Not Found: The requested endpoint or ID doesn't exist."

RECURSIVE FailedIds(_)
\* the ids of the events whose DELETE (request i + 1) ended in an error, in list order
FailedIds(i) ==
    IF i = 0 THEN <<>>
    ELSE FailedIds(i - 1)
         \o (IF sent[i + 1].outcome = "error" THEN <<DictGet(loc.events[i], "id")>> ELSE <<>>)

\* C9: when the listing gave n events, every event gets exactly one DELETE request,
\* in list order, whichever of them fail; the text reports n - k deleted, k failed
\* and the ids of the k events whose deletion failed, in list order.
C9_EveryEventDeletedOnce ==
    (DeleteCall /\ loc.listed /\ AllDicts(loc.events)) =>
        /\ pc # "raised"
        /\ pc = "done" =>
              LET n == Len(loc.events)
                  failed == FailedIds(n)
              IN  /\ Len(sent) = n + 1
                  /\ \A i \in 1..n :
                        /\ sent[i + 1].req.method = "DELETE"
                        /\ sent[i + 1].req.url = INTERVALS_API_BASE_URL \o "/athlete/"
                              \o loc.athlete_id_to_use \o "/events/"
                              \o IntToStr(DictGet(loc.events[i], "id").n)
                  /\ ret.kind = "text"
                  /\ ret.text = "Deleted " \o IntToStr(n - Len(failed))
                        \o " events. Failed to delete " \o IntToStr(Len(failed))
                        \o " events: " \o ListRepr(failed)

C9_Witness ==
    /\ DeleteCall
    /\ pc = "done"
    /\ Len(loc.events) = 3
    /\ sent[2].outcome = "error"
    /\ sent[3].outcome = "ok"
    /\ sent[4].outcome = "error"
    /\ ret.text = "Deleted 1 events. Failed to delete 2 events: [11, 13]"

\* C10: every error, an unparseable date given to a tool included, ends as a text the
\* tool returns: no exception leaves a tool.
C10_NoExceptionLeavesTool ==
    pc # "raised" /\ ret.kind # "raise"

-----------------------------------------------------------------------------
(* Inputs of the result normaliser and of the named-filter *)

\* longest list inside a raw result
MaxItems == 2
\* longest list of activities handed to the named-filter
MaxRecords == 3

\* every sequence over S of length 0..n
SeqsUpTo(S, n) == UNION {[1..k -> S] : k \in 0..n}

\* what a JSON list of the API can hold: records and values that are no record
PayloadItems ==
    { PyDict(<<"id", "name">>, <<PyInt(1), PyStr("Ride")>>),
      PyDict(<<"id">>, <<PyInt(2)>>),
      PyStr("x") }

PayloadLists == SeqsUpTo(PayloadItems, MaxItems)

\* a key of a JSON object with its value
PayloadEntries ==
    { <<"name", PyStr("Ride")>>, <<"startTime", PyStr("2024-03-01T07:00:00")>>,
      <<"total", PyInt(2)>> }
    \cup { <<"activities", PyList(l)>> : l \in PayloadLists }
    \cup { <<"data", PyList(l)>> : l \in PayloadLists }

\* JSON objects of at most two keys, in insertion order
PayloadMappings ==
    { PyDict(<<>>, <<>>) }
    \cup { PyDict(<<e[1]>>, <<e[2]>>) : e \in PayloadEntries }
    \cup { PyDict(<<p[1][1], p[2][1]>>, <<p[1][2], p[2][2]>>) :
              p \in { q \in PayloadEntries \X PayloadEntries : q[1][1] # q[2][1] } }

\* result: Any
RawPayloads ==
    { PyNone, PyStr("error"), PyInt(0) }
    \cup { PyList(l) : l \in PayloadLists }
    \cup PayloadMappings

ParseActivitiesCall ==
    /\ pc = "idle"
    /\ \E result \in RawPayloads :
          /\ call' = [tool |-> "_parse_activities_from_result", result |-> result]
          /\ ret' = ReturnValue(PyList(_parse_activities_from_result(result)))
    /\ pc' = "done"
    /\ UNCHANGED <<proc, httpx_client, API_KEY, ATHLETE_ID, loc, sent>>

\* the names an activity of the API can carry
NameValues == { PyStr("Ride"), PyStr("Run"), PyStr("Unnamed"), PyStr(""), PyNone }

\* activities: list[dict], with and without a name key
NamedFilterRecords ==
    { PyDict(<<"name">>, <<n>>) : n \in NameValues }
    \cup { PyDict(<<"id">>, <<PyInt(7)>>) }

FilterNamedCall ==
    /\ pc = "idle"
    /\ \E activities \in SeqsUpTo(NamedFilterRecords, MaxRecords) :
          /\ call' = [tool |-> "_filter_named_activities", activities |-> activities]
          /\ ret' = ReturnValue(PyList(_filter_named_activities(activities)))
    /\ pc' = "done"
    /\ UNCHANGED <<proc, httpx_client, API_KEY, ATHLETE_ID, loc, sent>>

\* format_total_duration with the hours written without padding
format_total_duration_HoursUnpadded(seconds) ==
    LET hours == seconds \div 3600
        minutes == (seconds % 3600) \div 60
    IN  IF hours = 0 THEN IntToStr(minutes) \o "m"
        ELSE IntToStr(hours) \o ":" \o ZeroPad(minutes, 2)

\* the total duration of the renderer (server.py:1009-1016); seconds: int >= 0
format_total_duration(seconds) ==
    LET hours == seconds \div 3600
        minutes == (seconds % 3600) \div 60
    IN  IF hours = 0 THEN IntToStr(minutes) \o "m"
        ELSE ZeroPad(hours, 2) \o ":" \o ZeroPad(minutes, 2)

\* every duration up to MaxSeconds, and durations of ten and of a hundred hours
MaxSeconds == 7500
LongDurations == {35999, 36000, 36060, 86399, 359999, 360000, 360060}
DurationSeconds == (0..MaxSeconds) \cup LongDurations

TotalDurationCall ==
    /\ pc = "idle"
    /\ \E seconds \in DurationSeconds :
          /\ call' = [tool |-> "format_total_duration", seconds |-> seconds]
          /\ ret' = ReturnValue(PyStr(format_total_duration(seconds)))
    /\ pc' = "done"
    /\ UNCHANGED <<proc, httpx_client, API_KEY, ATHLETE_ID, loc, sent>>

NextPure ==
    ErrorMessageCall \/ ParseActivitiesCall \/ FilterNamedCall \/ TotalDurationCall \/ Reset

SpecPure == InitPure /\ [][NextPure]_vars

-----------------------------------------------------------------------------
(* Claims about the result normaliser and the named-filter *)

ParseCall == pc = "done" /\ call.tool = "_parse_activities_from_result"
FilterCall == pc = "done" /\ call.tool = "_filter_named_activities"

\* the values of a mapping that are lists, in insertion order
ListValues(d) == SelectSeq(d.vals, IsList)

\* C11: _parse_activities_from_result returns, for a list, exactly its record
\* elements in order; for a mapping that has a list value, exactly the record
\* elements of the first list value in insertion order; for a mapping with no
\* list value that contains any of name, startTime, distance, the mapping
\* itself as the single element; and the empty sequence in every other case.
C11_ExtractRecords ==
    ParseCall =>
        LET raw == call.result
        IN  ret.value.items =
              IF IsList(raw) THEN SelectSeq(raw.items, IsDict)
              ELSE IF IsDict(raw) /\ Len(ListValues(raw)) > 0
              THEN SelectSeq(Head(ListValues(raw)).items, IsDict)
              ELSE IF IsDict(raw) /\ (HasKey(raw, "name") \/ HasKey(raw, "startTime")
                                        \/ HasKey(raw, "distance"))
              THEN <<raw>>
              ELSE <<>>

\* a name that is present, non-empty and not the literal "Unnamed"
NameKept(activity) ==
    /\ HasKey(activity, "name")
    /\ DictGet(activity, "name") \notin {PyNone, PyStr(""), PyStr("Unnamed")}

\* C12: _filter_named_activities returns exactly the subsequence of the input
\* records whose name is present, non-empty and not the literal "Unnamed", in
\* their original relative order.
C12_FilterNamedKeepsNamed ==
    FilterCall => ret.value.items = SelectSeq(call.activities, NameKept)

\* a call that drops the first and the last record and keeps two in between
C12_Witness ==
    /\ FilterCall
    /\ call.activities = << PyDict(<<"name">>, <<PyStr("Unnamed")>>),
                            PyDict(<<"name">>, <<PyStr("Run")>>),
                            PyDict(<<"name">>, <<PyStr("Ride")>>) >>
    /\ ret.value.items = << PyDict(<<"name">>, <<PyStr("Run")>>),
                            PyDict(<<"name">>, <<PyStr("Ride")>>) >>

\* C13: _filter_named_activities is idempotent: filtering the filtered list
\* again gives the filtered list.
C13_FilterNamedIdempotent ==
    FilterCall => _filter_named_activities(ret.value.items) = ret.value.items

\* a call whose first pass removed records and left some
C13_Witness ==
    /\ FilterCall
    /\ Len(ret.value.items) = 2
    /\ Len(call.activities) = 3
    /\ _filter_named_activities(_filter_named_activities(call.activities))
          = _filter_named_activities(call.activities)

-----------------------------------------------------------------------------
(* Text helpers of the workout-file tools *)

RECURSIVE Join(_, _)
\* sep.join(items)
Join(items, sep) ==
    IF Len(items) = 0 THEN ""
    ELSE IF Len(items) = 1 THEN Head(items)
    ELSE Head(items) \o sep \o Join(Tail(items), sep)

\* x in items, for a list
InSeq(x, items) == \E i \in 1..Len(items) : items[i] = x

\* the characters of a file name in code point order
FileNameChars == " -.0123456789ABCDEFGHIJKLMNOPQRSTUVWXYZ_abcdefghijklmnopqrstuvwxyz"
FileCharRank(c) == CHOOSE i \in 1..Len(FileNameChars) : SubSeq(FileNameChars, i, i) = c

RECURSIVE StrLess(_, _)
\* a < b, for str
StrLess(a, b) ==
    IF Len(b) = 0 THEN FALSE
    ELSE IF Len(a) = 0 THEN TRUE
    ELSE IF SubSeq(a, 1, 1) # SubSeq(b, 1, 1)
    THEN FileCharRank(SubSeq(a, 1, 1)) < FileCharRank(SubSeq(b, 1, 1))
    ELSE StrLess(SubSeq(a, 2, Len(a)), SubSeq(b, 2, Len(b)))

\* sorted(names) that leaves the names as they were listed
sorted_AsListed(names) == names

RECURSIVE sorted(_)
\* sorted(names), for a list of distinct str
sorted(names) ==
    IF Len(names) = 0 THEN <<>>
    ELSE LET least == CHOOSE i \in 1..Len(names) :
                          \A j \in 1..Len(names) : j = i \/ StrLess(names[i], names[j])
         IN  <<names[least]>>
             \o sorted(SubSeq(names, 1, least - 1) \o SubSeq(names, least + 1, Len(names)))

\* these three characters stand as the names of their code points
CrossMark == "[U+274C]"
Clipboard == "[U+1F4CB]"
Backtick == "[U+0060]"

-----------------------------------------------------------------------------
(* get_triathlon_workout_files (server.py:678-887) *)

valid_metrics == <<"HR", "Power", "Pace", "Meters">>
valid_categories == <<"Bike", "Run", "Swim">>

InvalidMetricMessage(metric) ==
    "Error: Invalid metric '" \o metric \o "'. Valid options are: " \o Join(valid_metrics, ", ")

InvalidCategoryMessage(category) ==
    "Error: Invalid category '" \o category \o "'. Valid options are: "
    \o Join(valid_categories, ", ")

\* the workout directory of a sport and metric, below the package directory
workout_dir(category, metric) ==
    "triathlon_workout_files/80_20_" \o category \o "_" \o metric \o "_80_20_Endurance_"

\* the table of a sport: each key with its file name prefixes, in insertion order
sport_subcategory_patterns ==
    [Bike |->
    <<
       <<"aerobic", <<"CAe", "CAP">>>>,
       <<"anaerobic", <<"CAI", "CAn">>>>,
       <<"accelerations", <<"CA1", "CA2", "CA3", "CA4", "CA5", "CA6", "CA7", "CA8", "CA9">>>>,
       <<"cruise", <<"CCI">>>>,
       <<"critical_power", <<"CCP">>>>,
       <<"depletion", <<"CD">>>>,
       <<"descending", <<"CDI">>>>,
       <<"foundation", <<"CF">>>>,
       <<"fast_finish", <<"CFA", "CFF">>>>,
       <<"force", <<"CFo">>>>,
       <<"mixed", <<"CIM", "CMI">>>>,
       <<"sprint", <<"CIR">>>>,
       <<"progression", <<"CPI">>>>,
       <<"power_repetitions", <<"CPR">>>>,
       <<"recovery", <<"CRe">>>>,
       <<"speed_play", <<"CSP">>>>,
       <<"speed_repetitions", <<"CSR">>>>,
       <<"steady_state", <<"CSS">>>>,
       <<"tempo", <<"CT">>>>,
       <<"threshold", <<"CTR">>>>,
       <<"time_trial", <<"CTT">>>>,
       <<"variable_intensity", <<"CVI">>>>,
       <<"vo2max", <<"CVO2M">>>>,
       <<"endurance", <<"EC">>>>,
       <<"easy", <<"EZC">>>>,
       <<"lactate", <<"LIC">>>>,
       <<"over_under", <<"OUC">>>>
    >>,
     Run |->
    <<
       <<"aerobic", <<"RAe">>>>,
       <<"anaerobic", <<"RAI", "RAn">>>>,
       <<"accelerations", <<"RA">>>>,
       <<"cruise", <<"RCI">>>>,
       <<"critical_velocity", <<"RCV">>>>,
       <<"depletion", <<"RD">>>>,
       <<"descending", <<"RDI">>>>,
       <<"foundation", <<"RF">>>>,
       <<"fast_finish", <<"RFF">>>>,
       <<"fartlek", <<"RFR">>>>,
       <<"half_marathon", <<"RHM">>>>,
       <<"heart_rate", <<"RHR">>>>,
       <<"long", <<"RL">>>>,
       <<"long_speedplay", <<"RLS">>>>,
       <<"mixed", <<"RMI">>>>,
       <<"marathon_pace", <<"RMP">>>>,
       <<"progression", <<"RP">>>>,
       <<"progression_fartlek", <<"RPF">>>>,
       <<"progression_intervals", <<"RPI">>>>,
       <<"recovery", <<"RRe">>>>,
       <<"short_intervals", <<"RSI">>>>,
       <<"speed_play", <<"RSP">>>>,
       <<"steady_state", <<"RSS">>>>,
       <<"tempo", <<"RT">>>>,
       <<"time_trial", <<"RTT">>>>,
       <<"variable_intensity", <<"RVI">>>>,
       <<"vo2max", <<"RVO2M">>>>,
       <<"cross_training", <<"RXT">>>>,
       <<"5k", <<"R5K">>>>,
       <<"10k", <<"R10K">>>>,
       <<"easy", <<"ER">>>>,
       <<"easy_fast_finish", <<"ERFF">>>>,
       <<"long_finish", <<"LFR">>>>,
       <<"long_intervals", <<"LIR">>>>,
       <<"outdoor", <<"OUR">>>>,
       <<"warmup", <<"WR">>>>
    >>,
     Swim |->
    <<
       <<"aerobic", <<"SAe">>>>,
       <<"broken_swims", <<"SBB">>>>,
       <<"cruise", <<"SCI">>>>,
       <<"critical_pace", <<"SCP">>>>,
       <<"endurance", <<"SE">>>>,
       <<"easy_endurance", <<"SEE">>>>,
       <<"endurance_recovery", <<"SER">>>>,
       <<"foundation", <<"SF">>>>,
       <<"short_intervals", <<"SIS">>>>,
       <<"lactate", <<"SLI">>>>,
       <<"mixed", <<"SMI">>>>,
       <<"recovery", <<"SRe">>>>,
       <<"short_sprint", <<"SSI">>>>,
       <<"speed_play", <<"SSP">>>>,
       <<"tempo", <<"ST">>>>,
       <<"threshold_intervals", <<"STI">>>>,
       <<"time_trial", <<"STT">>>>
    >>]

\* sport_subcategory_patterns.get(category, {})
subcategory_patterns(category) ==
    IF category \in DOMAIN sport_subcategory_patterns
    THEN sport_subcategory_patterns[category] ELSE <<>>

\* subcategory_patterns.keys()
SubcategoryKeys(category) ==
    [i \in 1..Len(subcategory_patterns(category)) |-> subcategory_patterns(category)[i][1]]

\* the key test that only looks for the sub-category inside the key
KeyMatches_SubInKeyOnly(sub_category_lower, key) == Contains(key, sub_category_lower)

\* sub_category_lower in key or key in sub_category_lower
KeyMatches(sub_category_lower, key) ==
    Contains(key, sub_category_lower) \/ Contains(sub_category_lower, key)

RECURSIVE CollectPatterns(_, _)
\* matching_patterns after the loop over the rest of the table
CollectPatterns(table, sub_category_lower) ==
    IF Len(table) = 0 THEN <<>>
    ELSE (IF KeyMatches(sub_category_lower, Head(table)[1]) THEN Head(table)[2] ELSE <<>>)
         \o CollectPatterns(Tail(table), sub_category_lower)

matching_patterns(category, sub_category) ==
    CollectPatterns(subcategory_patterns(category), Lower(sub_category))

\* f.endswith('.json') and not f.startswith('Copyright_')
IsWorkoutJson(f) == EndsWith(f, ".json") /\ ~StartsWith(f, "Copyright_")

\* any(file.startswith(pattern) for pattern in patterns)
HasPrefixIn(file, patterns) == \E i \in 1..Len(patterns) : StartsWith(file, patterns[i])

DescriptionLimit == 200

\* an open or a json.load that raised, and one that gave a value
ReadError(msg) == [kind |-> "error", msg |-> msg]
ReadJson(data) == [kind |-> "json", data |-> data]

ErrorEntry(filename, msg) ==
    [filename |-> filename, error |-> "Failed to load file: " \o msg]

\* the body of the loop over json_files: one entry of results
LoadEntry(filename, read) ==
    IF read.kind = "error" THEN ErrorEntry(filename, read.msg)
    ELSE IF ~IsDict(read.data)
    THEN ErrorEntry(filename, "'list' object has no attribute 'get'")
    ELSE LET workout_data == read.data
             found == IF HasKey(workout_data, "description")
                      THEN DictGet(workout_data, "description")
                      ELSE PyStr("No description available")
             duration == IF HasKey(workout_data, "duration")
                         THEN DictGet(workout_data, "duration") ELSE PyInt(0)
             target == IF HasKey(workout_data, "target")
                       THEN DictGet(workout_data, "target") ELSE PyStr("Unknown")
         IN  IF found.t # "str"
             THEN ErrorEntry(filename, "'NoneType' object is not subscriptable")
             ELSE IF duration.t # "num"
             THEN ErrorEntry(filename, "unsupported operand type(s) for //: 'str' and 'int'")
             ELSE [filename |-> filename,
                   description |-> SubSeq(found.s, 1, IF Len(found.s) < DescriptionLimit
                                                      THEN Len(found.s) ELSE DescriptionLimit)
                                   \o "...",
                   duration_minutes |-> IF duration.n # 0 THEN duration.n \div 60 ELSE 0,
                   target |-> target,
                   full_data |-> workout_data]

IsErrorEntry(entry) == "error" \in DOMAIN entry

\* the loop over json_files that ends at the first file that fails
load_files_StopAtFailure(json_files, reads) ==
    LET bad == {i \in 1..Len(json_files) : IsErrorEntry(LoadEntry(json_files[i], reads[i]))}
        last == IF bad = {} THEN Len(json_files)
                ELSE CHOOSE i \in bad : \A j \in bad : i <= j
    IN  [i \in 1..last |-> LoadEntry(json_files[i], reads[i])]

\* results after the loop over json_files
load_files(json_files, reads) ==
    [i \in 1..Len(json_files) |-> LoadEntry(json_files[i], reads[i])]

\* the lines of the response for one entry of results
EntryText(result) ==
    IF IsErrorEntry(result)
    THEN CrossMark \o " " \o result.filename \o ": " \o result.error \o "\n\n"
    ELSE Clipboard \o " **" \o result.filename \o "**\n"
         \o "   Duration: " \o IntToStr(result.duration_minutes) \o " minutes\n"
         \o "   Target: " \o PyFormat(result.target) \o "\n"
         \o "   Description: " \o result.description \o "\n\n"

RECURSIVE EntriesText(_)
EntriesText(results) ==
    IF Len(results) = 0 THEN ""
    ELSE EntryText(Head(results)) \o EntriesText(Tail(results))

FoundText(results, category, sub_category, metric) ==
    "Found " \o IntToStr(Len(results)) \o " workout files for " \o category
    \o " (" \o metric \o " metric)"
    \o (IF Truthy(sub_category) THEN " in sub-category '" \o sub_category.s \o "'" ELSE "")
    \o ":\n\n" \o EntriesText(results)

NoFilesPrefix(category, metric) ==
    "No workout files found for " \o category \o " with " \o metric \o " metric"

\* the message of a sub-category that matches no key, without the list of keys
NoKeyMatchMessage_NoEnumeration(category, sub_category, metric) ==
    NoFilesPrefix(category, metric) \o " and sub-category '" \o sub_category.s \o "'."

NoKeyMatchMessage(category, sub_category, metric) ==
    NoFilesPrefix(category, metric) \o " and sub-category '" \o sub_category.s
    \o "'. Available sub-categories: " \o Join(SubcategoryKeys(category), ", ")

NoFileMatchMessage(category, sub_category, metric) ==
    NoFilesPrefix(category, metric) \o " and sub-category '" \o sub_category.s \o "'."

\* a directory as the tool finds it: whether it exists and what os.listdir gives
Directory(exists, listing) == [exists |-> exists, listing |-> listing]
Listing(names) == [kind |-> "names", names |-> names]
ListingError(msg) == [kind |-> "raise", msg |-> msg]

\* what the tool did to the file system, in the order of the code
NoFileAccess ==
    [dir_checked |-> FALSE, listed |-> FALSE, listing |-> <<>>, json_files |-> <<>>,
     filtered |-> FALSE, matching_patterns |-> <<>>, selected |-> <<>>,
     loaded |-> FALSE, chosen |-> <<>>, reads |-> <<>>, results |-> <<>>]

Answer(text, access) == [text |-> text, loc |-> access]

\* validation of the arguments with the category left unchecked
ValidationError_MetricOnly(category, metric) ==
    IF ~InSeq(metric, valid_metrics) THEN InvalidMetricMessage(metric) ELSE ""

\* the error text of the two validations, "" when both pass
ValidationError(category, metric) ==
    IF ~InSeq(metric, valid_metrics) THEN InvalidMetricMessage(metric)
    ELSE IF ~InSeq(category, valid_categories) THEN InvalidCategoryMessage(category)
    ELSE ""

\* the tool up to the point where the files are opened: the text it returns
\* early ("loaded" stays FALSE), or the files it is going to open
select_workout_files(category, sub_category, metric, limit, dir) ==
    IF ValidationError(category, metric) # ""
    THEN Answer(ValidationError(category, metric), NoFileAccess)
    ELSE IF ~dir.exists
    THEN Answer("Error: Workout directory not found for " \o category \o " with "
                \o metric \o " metric.",
                [NoFileAccess EXCEPT !.dir_checked = TRUE])
    ELSE IF dir.listing.kind = "raise"
    THEN Answer("Error accessing workout files: " \o dir.listing.msg,
                [NoFileAccess EXCEPT !.dir_checked = TRUE, !.listed = TRUE])
    ELSE
    LET json_files == SelectSeq(dir.listing.names, IsWorkoutJson)
        listed == [NoFileAccess EXCEPT !.dir_checked = TRUE, !.listed = TRUE,
                                       !.listing = dir.listing.names,
                                       !.json_files = json_files]
    IN  IF Len(json_files) = 0
        THEN Answer(NoFilesPrefix(category, metric) \o ".", listed)
        ELSE IF Truthy(sub_category)
        THEN LET patterns == matching_patterns(category, sub_category.s)
                 filtered_files == SelectSeq(json_files, LAMBDA f : HasPrefixIn(f, patterns))
                 filtered == [listed EXCEPT !.filtered = TRUE,
                                            !.matching_patterns = patterns,
                                            !.selected = filtered_files]
             IN  IF Len(patterns) = 0
                 THEN Answer(NoKeyMatchMessage(category, sub_category, metric), filtered)
                 ELSE IF Len(filtered_files) = 0
                 THEN Answer(NoFileMatchMessage(category, sub_category, metric), filtered)
                 ELSE Answer("", [filtered EXCEPT !.loaded = TRUE,
                                     !.chosen = Slice(sorted(filtered_files), limit)])
        ELSE Answer("", [listed EXCEPT !.selected = json_files, !.loaded = TRUE,
                                       !.chosen = Slice(sorted(json_files), limit)])

\* the loop over the chosen files and the response; reads[i] is what opening
\* and parsing the i-th chosen file gives
load_workout_files(before, category, sub_category, metric, reads) ==
    IF ~before.loc.loaded THEN before
    ELSE LET results == load_files(before.loc.chosen, reads)
         IN  Answer(FoundText(results, category, sub_category, metric),
                    [before.loc EXCEPT !.reads = reads, !.results = results])

\* the whole tool
get_triathlon_workout_files(category, sub_category, metric, limit, dir, reads) ==
    load_workout_files(select_workout_files(category, sub_category, metric, limit, dir),
                       category, sub_category, metric, reads)

-----------------------------------------------------------------------------
(* parse_triathlon_workout_to_readable_format (server.py:945-1170) *)

RECURSIVE Replace(_, _, _)
\* s.replace(old, new), for a non-empty old
Replace(s, old, new) ==
    IF Len(s) < Len(old) THEN s
    ELSE IF StartsWith(s, old)
    THEN new \o Replace(SubSeq(s, Len(old) + 1, Len(s)), old, new)
    ELSE SubSeq(s, 1, 1) \o Replace(SubSeq(s, 2, Len(s)), old, new)

IsSpace(c) == c \in {" ", "\n", "\t"}

RECURSIVE LStrip(_)
LStrip(s) ==
    IF Len(s) > 0 /\ IsSpace(SubSeq(s, 1, 1)) THEN LStrip(SubSeq(s, 2, Len(s))) ELSE s

RECURSIVE RStrip(_)
RStrip(s) ==
    IF Len(s) > 0 /\ IsSpace(SubSeq(s, Len(s), Len(s)))
    THEN RStrip(SubSeq(s, 1, Len(s) - 1)) ELSE s

\* s.strip()
Strip(s) == LStrip(RStrip(s))

\* d.get(k, default)
GetOr(d, k, default) == IF HasKey(d, k) THEN DictGet(d, k) ELSE default

\* the helpers are defined on documents whose durations, distances and reps are numbers

\* seconds: int
format_duration(seconds) ==
    IF seconds < 60 THEN IntToStr(seconds) \o "s"
    ELSE IF seconds < 3600
    THEN IF seconds % 60 = 0 THEN IntToStr(seconds \div 60) \o "m"
         ELSE IntToStr(seconds \div 60) \o "m" \o IntToStr(seconds % 60) \o "s"
    ELSE IF (seconds % 3600) \div 60 = 0 THEN IntToStr(seconds \div 3600) \o "h"
         ELSE IntToStr(seconds \div 3600) \o "h" \o IntToStr((seconds % 3600) \div 60) \o "m"

\* the three zone formats differ in their unit only
FormatZone(zone_data, unit) ==
    LET start == GetOr(zone_data, "start", PyInt(0))
        end == GetOr(zone_data, "end", PyInt(0))
    IN  IF ~Truthy(zone_data) THEN ""
        ELSE IF start = end THEN PyFormat(start) \o unit
        ELSE PyFormat(start) \o "-" \o PyFormat(end) \o unit

format_power_zone(power_data) == FormatZone(power_data, "% FTP")
format_hr_zone(hr_data) == FormatZone(hr_data, "% LTHR")
format_pace_zone(pace_data) == FormatZone(pace_data, "% pace")

get_workout_type(category) ==
    IF category = "Bike" THEN "Ride" ELSE category

\* distance: int
format_distance(distance) ==
    IF distance > 0 THEN IntToStr(distance) \o " meter" ELSE ""

\* parse_step showing the raw text of the step, the placeholder included
parse_step_TextAsIs(step, is_swim) ==
    LET text == GetOr(step, "text", PyStr("Active"))
        duration == GetOr(step, "duration", PyInt(0))
        distance == GetOr(step, "distance", PyInt(0))
        duration_str == IF is_swim /\ Truthy(distance) THEN format_distance(distance.n)
                        ELSE format_duration(duration.n)
        intensity == IF HasKey(step, "power") THEN format_power_zone(DictGet(step, "power"))
                     ELSE IF HasKey(step, "hr") THEN format_hr_zone(DictGet(step, "hr"))
                     ELSE IF HasKey(step, "pace") THEN format_pace_zone(DictGet(step, "pace"))
                     ELSE ""
    IN  Strip("- \"" \o PyFormat(text) \o "\" " \o duration_str \o " " \o intensity)

parse_step(step, is_swim) ==
    LET text == GetOr(step, "text", PyStr("Active"))
        duration == GetOr(step, "duration", PyInt(0))
        distance == GetOr(step, "distance", PyInt(0))
        instruction == IF text # PyStr("Active") THEN PyFormat(text) ELSE "Maintain effort"
        duration_str == IF is_swim /\ Truthy(distance) THEN format_distance(distance.n)
                        ELSE format_duration(duration.n)
        intensity == IF HasKey(step, "power") THEN format_power_zone(DictGet(step, "power"))
                     ELSE IF HasKey(step, "hr") THEN format_hr_zone(DictGet(step, "hr"))
                     ELSE IF HasKey(step, "pace") THEN format_pace_zone(DictGet(step, "pace"))
                     ELSE ""
    IN  Strip("- \"" \o instruction \o "\" " \o duration_str \o " " \o intensity)

\* the lines the loop body appends for steps[i - 1]
StepLines(step, i, is_swim) ==
    LET reps == GetOr(step, "reps", PyInt(0))
        sub_steps == GetOr(step, "steps", PyList(<<>>))
        text == GetOr(step, "text", PyStr("Active"))
        interval_name == IF text # PyStr("Active") THEN PyFormat(text)
                         ELSE "Interval " \o IntToStr(i)
        inner == IF Truthy(sub_steps)
                 THEN [j \in 1..Len(sub_steps.items) |-> parse_step(sub_steps.items[j], is_swim)]
                 ELSE <<parse_step(step, is_swim)>>
    IN  IF reps.n > 1
        THEN <<"Repeat " \o IntToStr(reps.n) \o "x">> \o inner \o <<"">>
        ELSE <<interval_name>> \o inner \o <<"">>

RECURSIVE AllStepLines(_, _, _)
\* the lines of steps[i - 1:]
AllStepLines(steps, i, is_swim) ==
    IF i > Len(steps) THEN <<>>
    ELSE StepLines(steps[i], i, is_swim) \o AllStepLines(steps, i + 1, is_swim)

CodeFence == Backtick \o Backtick \o Backtick

\* the lines of result for a workout document
RenderLines(category, filename, workout_data) ==
    LET description == GetOr(workout_data, "description", PyStr("No description available"))
        cleaned_description ==
            Replace(Replace(Replace(Strip(description.s), Backtick \o "- - - -", "----"),
                            "- - - -", "----"), Backtick, "")
        steps == GetOr(workout_data, "steps", PyList(<<>>))
    IN  << "Workout Name: " \o Replace(Replace(filename, ".json", ""), "_", " "), "",
           "Workout Type: " \o get_workout_type(category), "",
           "Total Duration: "
             \o format_total_duration(GetOr(workout_data, "duration", PyInt(0)).n), "",
           "Description:", CodeFence, cleaned_description, CodeFence, "" >>
        \o (IF Truthy(steps)
            THEN <<CodeFence>> \o AllStepLines(steps.items, 1, category = "Swim") \o <<CodeFence>>
            ELSE <<>>)

\* filename with the extension the tool adds
WithJson(filename) == IF EndsWith(filename, ".json") THEN filename ELSE filename \o ".json"

\* the whole tool: exists is os.path.exists(file_path), read what open and json.load give
parse_triathlon_workout_to_readable_format(category, metric, filename, exists, read) ==
    IF ValidationError(category, metric) # "" THEN ValidationError(category, metric)
    ELSE IF filename = "" THEN "Error: filename parameter is required"
    ELSE IF ~exists
    THEN "Error: Workout file '" \o WithJson(filename) \o "' not found in " \o category
         \o " (" \o metric \o ") directory."
    ELSE IF read.kind = "error"
    THEN "Error parsing workout file '" \o WithJson(filename) \o "': " \o read.msg
    ELSE IF ~IsDict(read.data)
    THEN "Error parsing workout file '" \o WithJson(filename)
         \o "': 'list' object has no attribute 'get'"
    ELSE Join(RenderLines(category, WithJson(filename), read.data), "\n")

-----------------------------------------------------------------------------
(* The paths of the workout files (server.py:921-929, 977-981) *)

\* os.path.dirname(os.path.abspath(__file__)): where the package is installed
base_dir == "/srv/intervals_mcp_server"

\* os.path.join(a, b): an absolute b replaces a
os_path_join(a, b) ==
    IF StartsWith(b, "/") THEN b
    ELSE IF Len(a) = 0 \/ EndsWith(a, "/") THEN a \o b
    ELSE a \o "/" \o b

\* file_path: the catalog directory of (category, metric) joined with the file name
WorkoutFilePath(category, metric, filename) ==
    os_path_join(os_path_join(base_dir, workout_dir(category, metric)), filename)

\* get_triathlon_workout_file_content (server.py:890-942): dir_exists and exists are
\* os.path.exists of workout_dir and of file_path, read what open and json.load give
get_triathlon_workout_file_content(category, metric, filename, dir_exists, exists, read) ==
    IF ValidationError(category, metric) # "" THEN ValidationError(category, metric)
    ELSE IF filename = "" THEN "Error: filename parameter is required"
    ELSE IF ~dir_exists
    THEN "Error: Workout directory not found for " \o category \o " with " \o metric
         \o " metric."
    ELSE IF ~exists
    THEN "Error: Workout file '" \o WithJson(filename) \o "' not found in " \o category
         \o " (" \o metric \o ") directory."
    ELSE IF read.kind = "error"
    THEN "Error reading workout file '" \o WithJson(filename) \o "': " \o read.msg
    ELSE DumpsIndent(read.data, 0)

-----------------------------------------------------------------------------
(* SpecWorkouts: the two tools over the local workout files, with the file
   system as the environment *)

\* longest directory listing
MaxFiles == 3
DefaultFileLimit == 50

\* the names a workout directory can hold
WorkoutFileNames ==
    { "CAe1_Aerobic_Intervals_.json", "CAP1_Aerobic_Progression_Ride_.json",
      "CRe1_Recovery_.json", "Copyright_Notice.json", "README.txt" }

\* os.listdir gives the names of a directory once each, in any order
Listings ==
    { l \in SeqsUpTo(WorkoutFileNames, MaxFiles) :
          \A i, j \in 1..Len(l) : i # j => l[i] # l[j] }

Directories ==
    { Directory(FALSE, Listing(<<>>)),
      Directory(TRUE, ListingError("[Errno 13] Permission denied")) }
    \cup { Directory(TRUE, Listing(l)) : l \in Listings }

RECURSIVE Repeat(_, _)
Repeat(s, n) == IF n = 0 THEN "" ELSE s \o Repeat(s, n - 1)

\* a description of 250 characters
LongDescription == Repeat("Ride steady in zone two. ", 10)

LongDoc ==
    PyDict(<<"description", "duration", "target">>,
           <<PyStr(LongDescription), PyInt(3600), PyStr("POWER")>>)
\* a document without a target
ShortDoc ==
    PyDict(<<"description", "duration">>, <<PyStr("Easy spin"), PyInt(1830)>>)
EmptyDoc == PyDict(<<>>, <<>>)

\* what opening and parsing a listed file can give
FileReads ==
    { ReadJson(LongDoc), ReadJson(ShortDoc), ReadJson(EmptyDoc), ReadJson(PyList(<<>>)),
      ReadError("Expecting value: line 1 column 1 (char 0)") }

CategoryArgs == {"Bike", "Run", "Swim", "Invalid"}
MetricArgs == {"HR", "Invalid"}
SubCategoryArgs ==
    { PyNone, PyStr(""), PyStr("Aerobic"), PyStr("recovery ride"),
      PyStr("nonexistent_category") }
FileLimits == ((-1)..MaxFiles) \cup {DefaultFileLimit}

InitWorkouts ==
    /\ proc = "running"
    /\ httpx_client = AsyncClient
    /\ API_KEY = "key"
    /\ ATHLETE_ID = "i123"
    /\ Idle

get_triathlon_workout_files_call ==
    /\ pc = "idle"
    /\ \E category \in CategoryArgs \ {"Swim"}, sub_category \in SubCategoryArgs,
          metric \in MetricArgs, limit \in FileLimits, dir \in Directories :
          \E before \in {select_workout_files(category, sub_category, metric, limit, dir)} :
          \E reads \in [1..Len(before.loc.chosen) -> FileReads] :
          \E out \in {load_workout_files(before, category, sub_category, metric, reads)} :
             /\ call' = [tool |-> "get_triathlon_workout_files",
                         category |-> category, sub_category |-> sub_category,
                         metric |-> metric, limit |-> limit]
             /\ loc' = out.loc
             /\ ret' = ReturnValue(PyStr(out.text))
    /\ pc' = "done"
    /\ UNCHANGED <<proc, httpx_client, API_KEY, ATHLETE_ID, sent>>

\* the document of a step with a fixed intensity
FixedValueDoc ==
    PyDict(<<"duration", "steps">>,
           << PyInt(2600),
              PyList(<< PyDict(<<"reps", "steps">>,
                               << PyInt(2),
                                  PyList(<< PyDict(<<"text", "duration", "power">>,
                                                   << PyStr("Hard"), PyInt(60),
                                                      PyDict(<<"value", "units">>,
                                                             <<PyStr("110"), PyStr("%ftp")>>)
                                                   >>) >>) >>) >>) >>)

\* a document of steps with intensity ranges, over an hour long
RangeDoc ==
    PyDict(<<"description", "duration", "steps">>,
           << PyStr(" Warm up, then hold.\n" \o Backtick \o "- - - -\nSteady ride. "),
              PyInt(3900),
              PyList(<< PyDict(<<"text", "duration", "power">>,
                               << PyStr("Warm up"), PyInt(600),
                                  PyDict(<<"start", "end", "units">>,
                                         <<PyInt(50), PyInt(60), PyStr("%ftp")>>) >>),
                        PyDict(<<"duration", "hr">>,
                               << PyInt(90),
                                  PyDict(<<"start", "end">>, <<PyInt(80), PyInt(80)>>) >>),
                        PyDict(<<"reps", "text", "duration">>,
                               <<PyInt(3), PyStr("Sprint"), PyInt(30)>>) >>) >>)

\* a swim document whose steps are distances
SwimDoc ==
    PyDict(<<"duration", "steps">>,
           << PyInt(1800),
              PyList(<< PyDict(<<"text", "distance", "pace">>,
                               << PyStr("Swim"), PyInt(400),
                                  PyDict(<<"start", "end">>, <<PyInt(90), PyInt(95)>>) >>)
                     >>) >>)

\* a document with a repeated block inside a repeated block
NestedDoc ==
    PyDict(<<"duration", "steps">>,
           << PyInt(1500),
              PyList(<< PyDict(<<"reps", "steps">>,
                               << PyInt(2),
                                  PyList(<< PyDict(<<"reps", "steps">>,
                                                   << PyInt(3),
                                                      PyList(<< PyDict(<<"text", "duration">>,
                                                                       << PyStr("Fast"),
                                                                          PyInt(30) >>) >>)
                                                   >>),
                                            PyDict(<<"text", "duration">>,
                                                   <<PyStr("Easy"), PyInt(60)>>) >>) >>) >>) >>)

RenderReads ==
    { ReadJson(FixedValueDoc), ReadJson(RangeDoc), ReadJson(SwimDoc), ReadJson(NestedDoc),
      ReadJson(EmptyDoc), ReadJson(PyList(<<>>)),
      ReadError("Expecting value: line 1 column 1 (char 0)") }

\* file names: none, a file of the catalog with and without its extension, a
\* name with parent-directory components and an absolute one
FileNameArgs ==
    { "", "CRe1_Recovery_", "CRe1_Recovery_.json",
      "../80_20_Run_HR_80_20_Endurance_/RRe1_Recovery_", "/tmp/outside.json" }

parse_triathlon_workout_to_readable_format_call ==
    /\ pc = "idle"
    /\ \E category \in CategoryArgs, metric \in MetricArgs, filename \in FileNameArgs,
          exists \in BOOLEAN, read \in RenderReads :
          /\ call' = [tool |-> "parse_triathlon_workout_to_readable_format",
                      category |-> category, metric |-> metric, filename |-> filename]
          /\ loc' = IF ValidationError(category, metric) # "" \/ filename = ""
                    THEN [file_checked |-> FALSE, opened |-> FALSE]
                    ELSE IF ~exists
                    THEN [file_checked |-> TRUE, opened |-> FALSE,
                          file_path |-> WorkoutFilePath(category, metric, WithJson(filename))]
                    ELSE [file_checked |-> TRUE, opened |-> TRUE, read |-> read,
                          file_path |-> WorkoutFilePath(category, metric, WithJson(filename)),
                          result |-> IF read.kind = "json" /\ IsDict(read.data)
                                     THEN RenderLines(category, WithJson(filename), read.data)
                                     ELSE <<>>]
          /\ ret' = ReturnValue(PyStr(
                       parse_triathlon_workout_to_readable_format(category, metric, filename,
                                                                  exists, read)))
    /\ pc' = "done"
    /\ UNCHANGED <<proc, httpx_client, API_KEY, ATHLETE_ID, sent>>

get_triathlon_workout_file_content_call ==
    /\ pc = "idle"
    /\ \E category \in CategoryArgs, metric \in MetricArgs, filename \in FileNameArgs,
          dir_exists \in BOOLEAN, exists \in BOOLEAN, read \in RenderReads :
          /\ call' = [tool |-> "get_triathlon_workout_file_content",
                      category |-> category, metric |-> metric, filename |-> filename]
          /\ loc' = IF ValidationError(category, metric) # "" \/ filename = ""
                    THEN [dir_checked |-> FALSE, file_checked |-> FALSE, opened |-> FALSE]
                    ELSE IF ~dir_exists
                    THEN [dir_checked |-> TRUE, file_checked |-> FALSE, opened |-> FALSE]
                    ELSE IF ~exists
                    THEN [dir_checked |-> TRUE, file_checked |-> TRUE, opened |-> FALSE,
                          file_path |-> WorkoutFilePath(category, metric, WithJson(filename))]
                    ELSE [dir_checked |-> TRUE, file_checked |-> TRUE, opened |-> TRUE,
                          file_path |-> WorkoutFilePath(category, metric, WithJson(filename)),
                          read |-> read]
          /\ ret' = ReturnValue(PyStr(
                       get_triathlon_workout_file_content(category, metric, filename,
                                                          dir_exists, exists, read)))
    /\ pc' = "done"
    /\ UNCHANGED <<proc, httpx_client, API_KEY, ATHLETE_ID, sent>>

NextWorkouts ==
    \/ get_triathlon_workout_files_call
    \/ get_triathlon_workout_file_content_call
    \/ parse_triathlon_workout_to_readable_format_call
    \/ Reset

SpecWorkouts == InitWorkouts /\ [][NextWorkouts]_vars

-----------------------------------------------------------------------------
(* Claims about the workout-file tools *)

FilesCall == pc = "done" /\ call.tool = "get_triathlon_workout_files"
RenderCall == pc = "done" /\ call.tool = "parse_triathlon_workout_to_readable_format"

\* the elements of a sequence
Range(seq) == {seq[i] : i \in 1..Len(seq)}

\* C14: for every category outside {Bike, Run, Swim} or metric outside
\* {HR, Power, Pace, Meters}, get_triathlon_workout_files returns an error
\* text that names the invalid value and lists the valid set, without listing
\* any directory, reading any file or making any remote call.
C14_InvalidArgumentIsLocalError ==
    FilesCall /\ (call.category \notin {"Bike", "Run", "Swim"}
                  \/ call.metric \notin {"HR", "Power", "Pace", "Meters"}) =>
        /\ \/ /\ call.metric \notin {"HR", "Power", "Pace", "Meters"}
              /\ ret.value.s = "Error: Invalid metric '" \o call.metric
                               \o "'. Valid options are: HR, Power, Pace, Meters"
           \/ /\ call.category \notin {"Bike", "Run", "Swim"}
              /\ ret.value.s = "Error: Invalid category '" \o call.category
                               \o "'. Valid options are: Bike, Run, Swim"
        /\ ~loc.dir_checked
        /\ ~loc.listed
        /\ loc.chosen = <<>>
        /\ loc.reads = <<>>
        /\ sent = <<>>

C14_Witness ==
    /\ FilesCall
    /\ call.category = "Invalid"
    /\ call.metric = "HR"
    /\ ret.value.s = "Error: Invalid category 'Invalid'. Valid options are: Bike, Run, Swim"

\* the keys of each sport in lower case
LoweredKeys ==
    [category \in DOMAIN sport_subcategory_patterns |->
        [i \in 1..Len(sport_subcategory_patterns[category]) |->
            Lower(sport_subcategory_patterns[category][i][1])]]

\* the rows of the sport's table whose key contains the sub-category or is
\* contained in it, whatever the case of the letters
MatchedRows(category, sub_category) ==
    UNION { { i \in 1..Len(LoweredKeys[category]) :
                \/ Contains(LoweredKeys[category][i], sub)
                \/ Contains(sub, LoweredKeys[category][i]) } :
              sub \in {Lower(sub_category)} }

\* the prefix codes of the matched keys
MatchedCodes(category, sub_category) ==
    UNION { Range(sport_subcategory_patterns[category][i][2]) :
              i \in MatchedRows(category, sub_category) }

\* C15: when a sub_category is supplied (a non-empty text, in a call that
\* found workout files in the directory), a table key of the sport matches
\* exactly when, case-insensitively, the key is a substring of the
\* sub_category or the sub_category is a substring of the key; and the files
\* selected are exactly the listed files whose name starts with one of the
\* prefix codes of a matched key.
C15_SubCategoryMatching ==
    FilesCall /\ loc.filtered =>
        \A codes \in {MatchedCodes(call.category, call.sub_category.s)} :
            /\ Range(loc.matching_patterns) = codes
            /\ loc.selected =
                  SelectSeq(loc.json_files, LAMBDA f : \E c \in codes : StartsWith(f, c))

\* the key "recovery" is inside the sub-category and selects one of three files
C15_Witness ==
    /\ FilesCall
    /\ call.category = "Bike"
    /\ call.sub_category = PyStr("recovery ride")
    /\ Len(loc.json_files) = 3
    /\ loc.matching_patterns = <<"CRe">>
    /\ loc.selected = <<"CRe1_Recovery_.json">>

C17_SortedAndLimited ==
    FilesCall /\ call.limit >= 0 =>
        /\ Len(loc.results) <= call.limit
        /\ loc.loaded =>
              LET chosen == loc.chosen
                  remaining == Range(loc.selected)
              IN  /\ remaining \subseteq
                        { f \in Range(loc.listing) :
                             EndsWith(f, ".json") /\ ~StartsWith(f, "Copyright_") }
                  /\ ~loc.filtered =>
                        remaining = { f \in Range(loc.listing) :
                                        EndsWith(f, ".json") /\ ~StartsWith(f, "Copyright_") }
                  /\ Range(chosen) \subseteq remaining
                  /\ Len(chosen) = IF call.limit < Cardinality(remaining)
                                   THEN call.limit ELSE Cardinality(remaining)
                  /\ \A i, j \in 1..Len(chosen) : i < j => StrLess(chosen[i], chosen[j])
                  /\ \A f \in remaining \ Range(chosen) :
                        \A i \in 1..Len(chosen) : StrLess(chosen[i], f)
                  /\ [i \in 1..Len(loc.results) |-> loc.results[i].filename] = chosen

\* three workout files listed out of order, the first two in order returned
C17_Witness ==
    /\ FilesCall
    /\ call.limit = 2
    /\ loc.listing = << "CRe1_Recovery_.json", "CAe1_Aerobic_Intervals_.json",
                        "CAP1_Aerobic_Progression_Ride_.json" >>
    /\ loc.chosen = << "CAP1_Aerobic_Progression_Ride_.json",
                       "CAe1_Aerobic_Intervals_.json" >>
    /\ Len(loc.results) = 2

\* C18: every successfully loaded entry has a description of at most 200
\* characters, where an ellipsis marks a description that was truncated.
C18_DescriptionAtMost200 ==
    FilesCall =>
        \A i \in 1..Len(loc.results) :
            ~IsErrorEntry(loc.results[i]) =>
                LET entry == loc.results[i]
                    written == GetOr(entry.full_data, "description",
                                     PyStr("No description available")).s
                IN  /\ Len(entry.description) <= 200
                    /\ EndsWith(entry.description, "...") => Len(written) > 200

\* C19: a read or parse failure of any subset of the selected files yields
\* one per-file error entry for each failing file and leaves every other
\* selected file's entry present and as it is when the file is loaded alone;
\* the batch is never aborted and the response lists one entry per selected
\* file in sorted order.
C19_FailuresStayPerFile ==
    FilesCall /\ loc.loaded =>
        /\ Len(loc.results) = Len(loc.chosen)
        /\ \A i \in 1..Len(loc.chosen) :
              /\ loc.results[i].filename = loc.chosen[i]
              /\ loc.reads[i].kind = "error" =>
                    loc.results[i] = [filename |-> loc.chosen[i],
                                      error |-> "Failed to load file: " \o loc.reads[i].msg]
              /\ loc.reads[i].kind = "json" =>
                    loc.results[i] = LoadEntry(loc.chosen[i], loc.reads[i])
              /\ Contains(ret.value.s, loc.chosen[i])
        /\ \A i, j \in 1..Len(loc.chosen) : i < j => StrLess(loc.chosen[i], loc.chosen[j])
        /\ StartsWith(ret.value.s,
                      "Found " \o IntToStr(Len(loc.chosen)) \o " workout files for ")

\* the first and the last of three files fail, the one between them is loaded
C19_Witness ==
    /\ FilesCall
    /\ Len(loc.chosen) = 3
    /\ loc.reads[1].kind = "error"
    /\ loc.reads[2] = ReadJson(LongDoc)
    /\ loc.reads[3].kind = "error"
    /\ IsErrorEntry(loc.results[1])
    /\ ~IsErrorEntry(loc.results[2])
    /\ IsErrorEntry(loc.results[3])

\* C20: for the workout document {"duration": 2600, "steps": [{"reps": 2,
\* "steps": [{"text": "Hard", "duration": 60, "power": {"value": "110",
\* "units": "%ftp"}}]}]} the renderer emits a "Repeat 2x" header, the step
\* line - "Hard" 1m 110% FTP and the total duration 43m.
C20_FixedValueRendered ==
    (RenderCall /\ loc.opened) =>
        (loc.read = ReadJson(FixedValueDoc) =>
            /\ Contains(ret.value.s, "\nRepeat 2x\n")
            /\ Contains(ret.value.s, "\n- \"Hard\" 1m 110% FTP\n")
            /\ Contains(ret.value.s, "Total Duration: 43m\n"))

\* a rendered workout document, with the lines of its result
Rendered == RenderCall /\ loc.opened /\ loc.read.kind = "json" /\ IsDict(loc.read.data)

\* the steps of the rendered document
DocSteps == GetOr(loc.read.data, "steps", PyList(<<>>)).items

\* the lines between the two fences of the step block
StepBlock == SubSeq(loc.result, 13, Len(loc.result) - 1)

IsRepeat(step) == GetOr(step, "reps", PyInt(0)).n > 1
SubSteps(step) == GetOr(step, "steps", PyList(<<>>)).items
IsPlainLeaf(step) == ~IsRepeat(step) /\ SubSteps(step) = <<>>

\* seq[from..to] occurs in lines as consecutive elements
OccursIn(block, lines) ==
    \E k \in 0..(Len(lines) - Len(block)) : SubSeq(lines, k + 1, k + Len(block)) = block

RECURSIVE RepeatRule(_, _)
RECURSIVE RepeatRuleAll(_, _, _)
\* the lines of a step under the recursive rule: a repeated step is a header, the
\* lines of its nested steps by the same rule (or its own line), and a blank line
RepeatRule(step, is_swim) ==
    IF IsRepeat(step)
    THEN <<"Repeat " \o IntToStr(GetOr(step, "reps", PyInt(0)).n) \o "x">>
         \o (IF SubSteps(step) # <<>> THEN RepeatRuleAll(SubSteps(step), 1, is_swim)
             ELSE <<parse_step(step, is_swim)>>)
         \o <<"">>
    ELSE <<parse_step(step, is_swim)>>
RepeatRuleAll(steps, i, is_swim) ==
    IF i > Len(steps) THEN <<>>
    ELSE RepeatRule(steps[i], is_swim) \o RepeatRuleAll(steps, i + 1, is_swim)

\* C21: step rendering is recursive: every step with reps > 1, at any nesting
\* depth, renders as a "Repeat Nx" header followed by the lines of its nested
\* steps rendered by the same rule (or its own line once when it has no nested
\* steps) and then a blank line.  The code renders the nested steps of a repeated
\* step with parse_step only, so a repeated step inside a repeated step loses
\* its header and its own nested steps.
C21_RepeatIsRecursive ==
    Rendered =>
        \A i \in 1..Len(DocSteps) :
            IsRepeat(DocSteps[i]) =>
                OccursIn(RepeatRule(DocSteps[i], call.category = "Swim"), StepBlock)

\* the line of a plain leaf step: instruction text, duration or distance, intensity
LeafInstruction(step) ==
    IF GetOr(step, "text", PyStr("Active")) = PyStr("Active") THEN "Maintain effort"
    ELSE GetOr(step, "text", PyStr("Active")).s
LeafLength(step, is_swim) ==
    IF is_swim /\ GetOr(step, "distance", PyInt(0)).n > 0
    THEN IntToStr(GetOr(step, "distance", PyInt(0)).n) \o " meter"
    ELSE format_duration(GetOr(step, "duration", PyInt(0)).n)
LeafIntensity(step) ==
    IF HasKey(step, "power") THEN format_power_zone(DictGet(step, "power"))
    ELSE IF HasKey(step, "hr") THEN format_hr_zone(DictGet(step, "hr"))
    ELSE IF HasKey(step, "pace") THEN format_pace_zone(DictGet(step, "pace"))
    ELSE ""
LeafLine(step, is_swim) ==
    "- \"" \o LeafInstruction(step) \o "\" " \o LeafLength(step, is_swim)
    \o (IF LeafIntensity(step) = "" THEN "" ELSE " " \o LeafIntensity(step))

\* the rendered document has only plain leaf steps below its top level
NestedAreLeaves ==
    \A i \in 1..Len(DocSteps) :
        \A j \in 1..Len(SubSteps(DocSteps[i])) : IsPlainLeaf(SubSteps(DocSteps[i])[j])

\* the first line of a top-level step: a repeat header or the interval name
FirstLine(step, i) ==
    IF IsRepeat(step) THEN "Repeat " \o IntToStr(GetOr(step, "reps", PyInt(0)).n) \o "x"
    ELSE IF GetOr(step, "text", PyStr("Active")) = PyStr("Active")
    THEN "Interval " \o IntToStr(i)
    ELSE GetOr(step, "text", PyStr("Active")).s

RECURSIVE LeafLinesFrom(_, _, _)
\* the step block when every leaf is one line and every top-level step opens
\* with its first line and closes with a blank line
LeafLinesFrom(steps, i, is_swim) ==
    IF i > Len(steps) THEN <<>>
    ELSE <<FirstLine(steps[i], i)>>
         \o (IF SubSteps(steps[i]) = <<>> THEN <<LeafLine(steps[i], is_swim)>>
             ELSE [j \in 1..Len(SubSteps(steps[i])) |->
                      LeafLine(SubSteps(steps[i])[j], is_swim)])
         \o <<"">>
         \o LeafLinesFrom(steps, i + 1, is_swim)

\* C22 as stated: a plain leaf step renders as exactly one line wherever it
\* occurs, the top level included: in a document whose steps are all plain
\* leaves the non-blank lines of the step block are the lines of the steps.
C22_LeafIsOneLineEverywhere ==
    (Rendered /\ DocSteps # <<>> /\ \A i \in 1..Len(DocSteps) : IsPlainLeaf(DocSteps[i])) =>
        SelectSeq(StepBlock, LAMBDA line : line # "")
            = [i \in 1..Len(DocSteps) |-> LeafLine(DocSteps[i], call.category = "Swim")]

\* C22 (amended): a plain leaf step renders as exactly one line made of its
\* instruction text ("Maintain effort" when the raw text is "Active"), its
\* duration or distance, and its intensity string; under a top-level step that
\* is the whole of it, and at the top level the line is preceded by a heading
\* line (the step's text, or "Interval N" for the N-th step when the raw text
\* is "Active") and followed by a blank line.
C22_LeafLine ==
    (Rendered /\ DocSteps # <<>> /\ NestedAreLeaves) =>
        StepBlock = LeafLinesFrom(DocSteps, 1, call.category = "Swim")

\* a top-level leaf without text, under its "Interval 2" heading
C22_Witness ==
    /\ Rendered
    /\ loc.read = ReadJson(RangeDoc)
    /\ IsPlainLeaf(DocSteps[2])
    /\ OccursIn(<<"Interval 2", "- \"Maintain effort\" 1m30s 80% LTHR", "">>, StepBlock)

-----------------------------------------------------------------------------
(* Claims about the total duration *)

TotalCall == pc = "done" /\ call.tool = "format_total_duration"

\* a number below 100 written with two digits
TwoDigits(n) == IF n < 10 THEN "0" \o NatToStr(n) ELSE NatToStr(n)

\* C23 as stated: a total duration of s seconds is shown as H:MM, the hours
\* without padding and the minutes with two digits, when s >= 3600, and as Mm,
\* the whole minutes of s, when s < 3600.
C23_HoursUnpadded ==
    TotalCall =>
        ret.value.s = IF call.seconds >= 3600
                      THEN NatToStr(call.seconds \div 3600) \o ":"
                           \o TwoDigits((call.seconds % 3600) \div 60)
                      ELSE NatToStr(call.seconds \div 60) \o "m"

\* C23 (amended): a total duration of s >= 0 seconds is shown as HH:MM, the
\* hours and the minutes each padded with zeros to at least two digits, when
\* s >= 3600, and as Mm, the whole minutes of s (floor of s/60), when s < 3600.
C23_TotalDurationFormat ==
    TotalCall =>
        ret.value.s = IF call.seconds >= 3600
                      THEN (IF call.seconds \div 3600 < 10 THEN "0" ELSE "")
                           \o NatToStr(call.seconds \div 3600) \o ":"
                           \o TwoDigits((call.seconds % 3600) \div 60)
                      ELSE NatToStr(call.seconds \div 60) \o "m"

\* an hour and five minutes
C23_Witness ==
    TotalCall /\ call.seconds = 3900 /\ ret.value.s = "01:05"

-----------------------------------------------------------------------------
(* Claims about add_or_update_event *)

EventCall == call.tool = "add_or_update_event"
EventDone == EventCall /\ pc = "done"

\* the request of an event call is the one its arguments name, and its text the
\* matching word
EventRequestMatches ==
    /\ Len(sent) = 1
    /\ Truthy(call.event_id) =>
          /\ sent[1].req.method = "PUT"
          /\ sent[1].req.url = INTERVALS_API_BASE_URL \o "/athlete/" \o loc.athlete_id_to_use
                               \o "/events/" \o call.event_id.s
          /\ Contains(ret.text, "updated")
          /\ ~Contains(ret.text, "created")
    /\ ~Truthy(call.event_id) =>
          /\ sent[1].req.method = "POST"
          /\ sent[1].req.url = INTERVALS_API_BASE_URL \o "/athlete/" \o loc.athlete_id_to_use
                               \o "/events"
          /\ Contains(ret.text, "created")
          /\ ~Contains(ret.text, "updated")

\* C24 as stated: every call of add_or_update_event with a resolved athlete id
\* issues exactly one request: a PUT to /athlete/{id}/events/{event_id} with the
\* text saying "updated" when an event id is present, a POST to
\* /athlete/{id}/events with the text saying "created" when it is absent.
C24_OneRequestPerCall ==
    (EventDone /\ loc.athlete_id_to_use # "") => EventRequestMatches

\* C24 (amended): every call of add_or_update_event with a resolved athlete id
\* and an API key (the argument, or the configured default) issues exactly one
\* request, a PUT to /athlete/{id}/events/{event_id} with the text saying
\* "updated" when the event id is non-empty, and a POST to /athlete/{id}/events
\* with the text saying "created" when it is null or empty; without an API key
\* no request is issued, and the text is still an error naming the action.
C24_OneRequestPerKeyedCall ==
    /\ EventCall => Len(sent) <= 1
    /\ (EventDone /\ loc.athlete_id_to_use # "") =>
          IF KeyToUse(call.api_key, API_KEY) # ""
          THEN EventRequestMatches
          ELSE /\ sent = <<>>
               /\ StartsWith(ret.text,
                             "Error " \o EventAction(call.event_id) \o " event: "
                             \o MissingKeyMessage)

\* an update answered with the event, and so reported
C24_Witness ==
    /\ EventDone
    /\ call.event_id = PyStr("42")
    /\ Len(sent) = 1
    /\ sent[1].req.method = "PUT"
    /\ sent[1].outcome = "ok"
    /\ StartsWith(ret.text, "Successfully updated event: {\n  \"id\": 42,")

-----------------------------------------------------------------------------
(* Claims about the lifespan of the service *)

LifespanActive == proc = "running"
LifespanOver == proc \in {"stopped", "crashed"}

\* C25: the shared HTTP client is closed exactly once, when the lifespan of the
\* service ends, whether the service stops normally or by an exception, and it
\* is never closed while the lifespan is active (nor before it).
C25_ClosedOnceAtLifespanEnd ==
    /\ httpx_client.closes <= 1
    /\ LifespanOver => (httpx_client.is_closed /\ httpx_client.closes = 1)
    /\ LifespanActive =>
          (httpx_client.created /\ ~httpx_client.is_closed /\ httpx_client.closes = 0)
    /\ proc \in {"loading", "failed"} => (~httpx_client.is_closed /\ httpx_client.closes = 0)

\* the service ended by an exception, its client closed once
C25_Witness ==
    proc = "crashed" /\ httpx_client.is_closed /\ httpx_client.closes = 1

-----------------------------------------------------------------------------
(* Claims about concurrent invocations *)

\* the responses task t received, in order
ResponsesOf(t) ==
    LET mine == SelectSeq(sent, LAMBDA e : e.task = t /\ e.answered)
    IN  [i \in 1..Len(mine) |-> mine[i].resp]

RECURSIVE AloneFrom(_, _, _, _)
\* the invocation c run alone from step, its i-th request answered by resps[i]
AloneFrom(c, step, resps, i) ==
    IF step.next # "request" \/ i > Len(resps) THEN step
    ELSE AloneFrom(c, Resume(IF i = 1 THEN "get_activities_primary"
                             ELSE "get_activities_backfill",
                             c, step.loc, ResponseResult(resps[i])),
                   resps, i + 1)

Alone(t) == AloneFrom(call[t], get_activities_start(call[t]), ResponsesOf(t), 1)

-----------------------------------------------------------------------------
(* Claims about the start of the process *)

\* the import is over
Imported == proc # "loading"

\* an invocation that named no athlete
NoAthleteNamed == pc = "done" /\ call.tool # "none" /\ call.athlete_id = PyNone

\* C27: the process fails to start exactly when a default athlete id is
\* configured and does not match ^i?\d+$; with no default athlete id configured
\* (ATHLETE_ID = "") the process starts, and a tool called without an athlete id
\* returns the error text of the missing athlete id.
C27_StartsUnlessMalformed ==
    /\ Imported => ((proc = "failed") = (ATHLETE_ID # "" /\ ~AthleteIdMatches(ATHLETE_ID)))
    /\ (NoAthleteNamed /\ ATHLETE_ID = "") => ret = TextOf(NoAthleteMessage)

-----------------------------------------------------------------------------
(* Claims about the files the tools read *)

\* the components of a path: the text between its slashes
SplitPath(path) ==
    LET cuts == {0, Len(path) + 1} \cup {i \in 1..Len(path) : SubSeq(path, i, i) = "/"}
        cut(k) == CHOOSE c \in cuts : Cardinality({d \in cuts : d < c}) = k - 1
    IN  [k \in 1..(Cardinality(cuts) - 1) |-> SubSeq(path, cut(k) + 1, cut(k + 1) - 1)]

RECURSIVE Resolved(_, _, _)
\* the components of the file an absolute path names: "" and "." are skipped and
\* ".." leaves the directory reached so far
Resolved(parts, i, reached) ==
    IF i > Len(parts) THEN reached
    ELSE IF Len(parts[i]) = 0 \/ parts[i] = "." THEN Resolved(parts, i + 1, reached)
    ELSE IF parts[i] = ".."
    THEN Resolved(parts, i + 1, SubSeq(reached, 1, Len(reached) - 1))
    ELSE Resolved(parts, i + 1, Append(reached, parts[i]))

FileOf(path) == Resolved(SplitPath(path), 1, <<>>)

\* the file of path lies in the directory dir or below it
IsInside(path, dir) ==
    /\ Len(FileOf(path)) > Len(FileOf(dir))
    /\ SubSeq(FileOf(path), 1, Len(FileOf(dir))) = FileOf(dir)

\* one of the two tools opened a file
FileOpened ==
    /\ pc = "done"
    /\ call.tool \in {"get_triathlon_workout_file_content",
                      "parse_triathlon_workout_to_readable_format"}
    /\ loc.opened

\* C28: for every filename argument, the file that
\* get_triathlon_workout_file_content and
\* parse_triathlon_workout_to_readable_format read lies inside the catalog
\* directory resolved from (category, metric), also when the filename has
\* parent-directory or absolute components.
C28_ReadsInsideCatalog ==
    FileOpened =>
        IsInside(loc.file_path, os_path_join(base_dir, workout_dir(call.category, call.metric)))

-----------------------------------------------------------------------------
(* Claims about a backfill that gives no list *)

\* the backfill request was issued and answered, and its result is not a list
BackfillGaveNoList ==
    /\ ActivitiesOver
    /\ Len(sent) = 2
    /\ IsBackfill(sent[2].req)
    /\ sent[2].outcome # "pending"
    /\ ~IsList(loc.more_result)

\* C29: in get_activities, when the backfill request fails or returns anything
\* other than a list, the failure is not reported: the call returns the
\* records the named-filter left of the primary page, truncated to limit, as
\* if the backfill had returned no records.
C29_BackfillFailureIsSilent ==
    BackfillGaveNoList =>
        /\ pc = "done"
        /\ ret = _format_activities_response(Slice(PrimaryNamed, call.limit),
                                             loc.athlete_id_to_use, FALSE)
        /\ ret = get_activities_finish(call, loc, PyList(<<>>)).ret
        /\ ~Contains(ret.text, "Error")

\* a failed backfill after a primary page with one named record of the two asked for
C29_Witness ==
    /\ BackfillGaveNoList
    /\ sent[2].outcome = "error"
    /\ call.limit = 2
    /\ Len(PrimaryNamed) = 1
    /\ ret.kind = "text"
    /\ ret.records = PrimaryNamed

-----------------------------------------------------------------------------
(* Claims about the order of the requests of delete_events_by_date_range *)

\* the urls of the events the listing returned
ListedUrls ==
    { INTERVALS_API_BASE_URL \o EventUrl(loc.athlete_id_to_use, loc.events[k]) :
      k \in {j \in 1..Len(loc.events) : IsDict(loc.events[j])} }

\* C30: in delete_events_by_date_range no DELETE request is issued unless the
\* listing request before it succeeded: every DELETE comes after a first
\* request that is the listing and was answered without an error, and targets
\* the id of an event the listing returned; when the listing returns an error
\* (or cannot be sent) the tool returns an error text and attempts no deletion.
C30_DeleteOnlyAfterListing ==
    DeleteCall =>
        /\ \A i \in 1..Len(sent) :
              sent[i].req.method = "DELETE" =>
                  /\ i > 1
                  /\ sent[1].req.method = "GET"
                  /\ sent[1].req.url = INTERVALS_API_BASE_URL
                                       \o EventsUrl(loc.athlete_id_to_use)
                  /\ sent[1].outcome = "ok"
                  /\ loc.listed
                  /\ sent[i].req.url \in ListedUrls
        /\ (Len(sent) >= 1 /\ sent[1].outcome = "error") =>
              /\ Len(sent) = 1
              /\ pc = "done"
              /\ ret.kind = "text"
              /\ StartsWith(ret.text, "Error deleting events: ")
        /\ (pc = "done" /\ sent = <<>>) =>
              /\ ret.kind = "text"
              /\ StartsWith(ret.text, "Error")

\* two events listed, and the two of them deleted
C30_Witness ==
    /\ DeleteCall
    /\ pc = "done"
    /\ Len(loc.events) = 2
    /\ Len(sent) = 3
    /\ sent[1].outcome = "ok"
    /\ sent[2].req.method = "DELETE"
    /\ sent[3].req.method = "DELETE"
    /\ sent[2].req.url # sent[3].req.url

=============================================================================
